---- MODULE Spec2Model ----
(***************************************************************************)
(* Fraud Detection API: the signed-token scheme and the authentication     *)
(* gates of api/auth.py and the protected endpoints of api/main.py.        *)
(*                                                                         *)
(* Strings are sequences of ASCII codes, so that splitting on ".",         *)
(* base64url, JSON text and single-character tampering are computed on     *)
(* characters.  Time is counted in ticks of 1/TicksPerSec second: the      *)
(* clock (time.time(), datetime.now()) has sub-second resolution while the *)
(* "exp" claim is truncated to whole seconds.  Probabilities and the       *)
(* operating threshold are counted in tenths.                              *)
(***************************************************************************)
EXTENDS Integers, Sequences, FiniteSets, TLC

\* ------------------------------------------------------------------ bounds
\* clock resolution of the model: ticks per second
TicksPerSec == 3
\* single clock ticks taken after start and after a jump
MaxTicks == 2
\* clock jumps past one default token lifetime
MaxJumps == 1
\* largest explicit expires_delta, in ticks
MaxDelta == 4
\* transactions in one batch request
MaxBatch == 2

\* ------------------------------------------------------- Python values
NoneV == [some |-> FALSE]
Some(x) == [some |-> TRUE, v |-> x]

Ret(v) == [raised |-> FALSE, value |-> v]
Raise(e) == [raised |-> TRUE, exc |-> e]

\* Built-in exception classes raised by the library calls below; all of
\* them derive from Exception.
Exc(name) == [type |-> name]

HTTPException(code, text) ==
    [type |-> "HTTPException", status_code |-> code, detail |-> text]

\* ------------------------------------------------------------ characters
DOT == 46
PAD == 61
QUOTE == 34
BACKSLASH == 92
SPACE == 32
MINUS == 45

Digits == 48..57
Upper == 65..90
Lower == 97..122

\* str(n) for an integer n
RECURSIVE NatToStr(_)
NatToStr(n) ==
    IF n < 10 THEN <<48 + n>> ELSE NatToStr(n \div 10) \o <<48 + (n % 10)>>

IntToStr(n) == IF n < 0 THEN <<MINUS>> \o NatToStr(-n) ELSE NatToStr(n)

\* str.split(sep): the pieces between the occurrences of sep, in order
Split(s, sep) ==
    LET seps == {i \in 1..Len(s) : s[i] = sep}
        \* the k-th occurrence of sep; 0 before the first, Len(s) + 1 after the last
        at(k) == IF k = 0 THEN 0
                 ELSE IF k > Cardinality(seps) THEN Len(s) + 1
                 ELSE CHOOSE i \in seps : Cardinality({j \in seps : j < i}) = k - 1
    IN  [k \in 1..(Cardinality(seps) + 1) |-> SubSeq(s, at(k - 1) + 1, at(k) - 1)]

\* str.title() on ASCII: the first letter of every run of letters is upper
\* case, the others lower case
IsAlpha(c) == c \in Upper \/ c \in Lower
ToUpper(c) == IF c \in Lower THEN c - 32 ELSE c
ToLower(c) == IF c \in Upper THEN c + 32 ELSE c

Title(s) ==
    [i \in 1..Len(s) |->
        IF i > 1 /\ IsAlpha(s[i - 1]) THEN ToLower(s[i]) ELSE ToUpper(s[i])]

\* ------------------------------------------------------------- sha256
\* hashlib.sha256(data).hexdigest() is modelled by a polynomial digest
\* modulo a prime, printed as HashHexLen lower-case hex digits.  The
\* digests of two strings of equal length that differ in one character
\* differ (the modulus is a prime above every character code), which is
\* the collision resistance the scheme relies on.
HashModulus == 46337
HashBase == 251
HashHexLen == 4

RECURSIVE PowMod(_, _)
PowMod(b, e) ==
    IF e = 0 THEN 1
    ELSE LET h == PowMod(b, e \div 2) IN
         (((h * h) % HashModulus) * (IF e % 2 = 1 THEN b ELSE 1)) % HashModulus

\* the digest of s[lo..hi], computed by halves
RECURSIVE DigestRange(_, _, _)
DigestRange(s, lo, hi) ==
    IF lo > hi THEN 0
    ELSE IF lo = hi THEN s[lo] % HashModulus
    ELSE LET mid == (lo + hi) \div 2 IN
         (DigestRange(s, lo, mid) * PowMod(HashBase, hi - mid)
            + DigestRange(s, mid + 1, hi)) % HashModulus

RECURSIVE PowInt(_, _)
PowInt(b, e) == IF e = 0 THEN 1 ELSE b * PowInt(b, e - 1)

HexDigit(d) == IF d < 10 THEN 48 + d ELSE 87 + d

HexFixed(n, width) ==
    [j \in 1..width |-> HexDigit((n \div PowInt(16, width - j)) % 16)]

sha256_hexdigest(s) ==
    HexFixed((PowMod(HashBase, Len(s)) + DigestRange(s, 1, Len(s))) % HashModulus,
             HashHexLen)

\* ---------------------------------------------------------- base64url
\* base64.urlsafe_b64encode
B64Char(v) ==
    IF v < 26 THEN 65 + v
    ELSE IF v < 52 THEN 97 + (v - 26)
    ELSE IF v < 62 THEN 48 + (v - 52)
    ELSE IF v = 62 THEN 45
    ELSE 95

urlsafe_b64encode(b) ==
    LET n == Len(b)
        byte(i) == IF i <= n THEN b[i] ELSE 0
    IN  [j \in 1..(4 * ((n + 2) \div 3)) |->
            LET g == (j - 1) \div 4
                k == (j - 1) % 4
                b1 == byte(3 * g + 1)
                b2 == byte(3 * g + 2)
                b3 == byte(3 * g + 3)
            IN  CASE k = 0 -> B64Char(b1 \div 4)
                  [] k = 1 -> B64Char((b1 % 4) * 16 + b2 \div 16)
                  [] k = 2 -> IF 3 * g + 2 > n THEN PAD
                              ELSE B64Char((b2 % 16) * 4 + b3 \div 64)
                  [] OTHER -> IF 3 * g + 3 > n THEN PAD ELSE B64Char(b3 % 64)]

\* The value of a character in the decoding table, 64 for a character
\* outside it.  urlsafe_b64decode translates "-" and "_" to "+" and "/"
\* and then decodes the standard alphabet, so both spellings decode.
B64Val(c) ==
    IF c \in Upper THEN c - 65
    ELSE IF c \in Lower THEN c - 97 + 26
    ELSE IF c \in Digits THEN c - 48 + 52
    ELSE IF c = 45 \/ c = 43 THEN 62
    ELSE IF c = 95 \/ c = 47 THEN 63
    ELSE 64

IsB64Data(c) == c # PAD /\ B64Val(c) < 64

\* base64.urlsafe_b64decode (binascii.a2b_base64, not strict): characters
\* outside the alphabet are skipped; a pad that completes a group of two
\* or three data characters ends the input; an incomplete last group
\* raises binascii.Error.
urlsafe_b64decode(s) ==
    LET dataBefore(p) == Cardinality({i \in 1..(p - 1) : IsB64Data(s[i])})
        \* the pads seen since the last data character, the one at p included
        padsAt(p) ==
            Cardinality({i \in 1..p : /\ s[i] = PAD
                                      /\ \A j \in i..p : ~IsB64Data(s[j])})
        stops(p) == /\ s[p] = PAD
                    /\ dataBefore(p) % 4 >= 2
                    /\ (dataBefore(p) % 4) + padsAt(p) >= 4
        stopped == \E p \in 1..Len(s) : stops(p)
        stop == IF stopped
                THEN CHOOSE p \in 1..Len(s) :
                        stops(p) /\ \A q \in 1..(p - 1) : ~stops(q)
                ELSE Len(s) + 1
        data == SelectSeq(SubSeq(s, 1, stop - 1), IsB64Data)
        m == Len(data)
        v(i) == B64Val(data[i])
    IN  IF ~stopped /\ m % 4 # 0 THEN Raise(Exc("binascii.Error"))
        ELSE Ret([j \in 1..(3 * (m \div 4) + (IF m % 4 >= 2 THEN (m % 4) - 1 ELSE 0)) |->
                    LET g == (j - 1) \div 3
                        k == (j - 1) % 3
                    IN  CASE k = 0 -> v(4 * g + 1) * 4 + v(4 * g + 2) \div 16
                          [] k = 1 -> (v(4 * g + 2) % 16) * 16 + v(4 * g + 3) \div 4
                          [] OTHER -> (v(4 * g + 3) % 4) * 64 + v(4 * g + 4)])

\* ---------------------------------------------------------------- JSON
\* JSON values.  A dict keeps its insertion order: a sequence of items.
JStr(s) == [t |-> "str", s |-> s]
JInt(n) == [t |-> "int", n |-> n]
JBool(b) == [t |-> "bool", b |-> b]
JNull == [t |-> "null"]
JObj(items) == [t |-> "obj", items |-> items]
Item(key, val) == [k |-> key, v |-> val]

\* dict.get(key, default): the value of the last item stored under key
RECURSIVE DictGet(_, _, _)
DictGet(items, key, default) ==
    IF items = <<>> THEN default
    ELSE IF items[Len(items)].k = key THEN items[Len(items)].v
    ELSE DictGet(SubSeq(items, 1, Len(items) - 1), key, default)

HasKey(items, key) == \E i \in 1..Len(items) : items[i].k = key

\* dict.update({key: val}): an existing key keeps its place
DictUpdate(items, key, val) ==
    IF HasKey(items, key)
    THEN [i \in 1..Len(items) |->
            IF items[i].k = key THEN Item(key, val) ELSE items[i]]
    ELSE Append(items, Item(key, val))

\* Python truth value, as tested by "not x"
Truthy(v) ==
    CASE v.t = "str" -> v.s # <<>>
      [] v.t = "int" -> v.n # 0
      [] v.t = "bool" -> v.b
      [] v.t = "obj" -> v.items # <<>>
      [] OTHER -> FALSE

\* json.dumps of a dict of strings, integers and None
RECURSIVE EscapeStr(_)
EscapeStr(s) ==
    IF s = <<>> THEN <<>>
    ELSE (IF Head(s) = QUOTE \/ Head(s) = BACKSLASH
          THEN <<BACKSLASH, Head(s)>> ELSE <<Head(s)>>)
         \o EscapeStr(Tail(s))

DumpStr(s) == <<QUOTE>> \o EscapeStr(s) \o <<QUOTE>>

DumpVal(v) ==
    CASE v.t = "str" -> DumpStr(v.s)
      [] v.t = "int" -> IntToStr(v.n)
      [] v.t = "bool" -> IF v.b THEN <<116, 114, 117, 101>>
                         ELSE <<102, 97, 108, 115, 101>>
      [] OTHER -> <<110, 117, 108, 108>>

RECURSIVE DumpItems(_)
DumpItems(items) ==
    IF items = <<>> THEN <<>>
    ELSE DumpStr(items[1].k) \o <<58, SPACE>> \o DumpVal(items[1].v)
         \o (IF Len(items) > 1 THEN <<44, SPACE>> ELSE <<>>)
         \o DumpItems(Tail(items))

json_dumps(items) == <<123>> \o DumpItems(items) \o <<125>>

\* json.loads on the JSON texts of objects, strings, integers, null, true
\* and false; any other text raises JSONDecodeError.
ParseFail == [ok |-> FALSE]
ParseOk(val, rest) == [ok |-> TRUE, val |-> val, rest |-> rest]

RECURSIVE SkipWs(_)
SkipWs(s) ==
    IF s # <<>> /\ Head(s) \in {SPACE, 9, 10, 13} THEN SkipWs(Tail(s)) ELSE s

StartsWith(s, p) == Len(s) >= Len(p) /\ SubSeq(s, 1, Len(p)) = p

\* the characters of a string after its opening quote
RECURSIVE ParseStrBody(_, _)
ParseStrBody(s, acc) ==
    IF s = <<>> THEN ParseFail
    ELSE IF Head(s) = QUOTE THEN ParseOk(JStr(acc), Tail(s))
    ELSE IF Head(s) = BACKSLASH THEN
        IF Len(s) >= 2 /\ s[2] \in {QUOTE, BACKSLASH, 47}
        THEN ParseStrBody(SubSeq(s, 3, Len(s)), Append(acc, s[2]))
        ELSE ParseFail
    ELSE IF Head(s) < SPACE THEN ParseFail
    ELSE ParseStrBody(Tail(s), Append(acc, Head(s)))

RECURSIVE ParseDigits(_, _)
ParseDigits(s, n) ==
    IF s # <<>> /\ Head(s) \in Digits
    THEN ParseDigits(Tail(s), n * 10 + (Head(s) - 48))
    ELSE ParseOk(JInt(n), s)

\* -?(0|[1-9][0-9]*), not followed by a fraction or an exponent
ParseNumber(s) ==
    LET neg == s # <<>> /\ Head(s) = MINUS
        d == IF neg THEN Tail(s) ELSE s
        r == IF d = <<>> \/ Head(d) \notin Digits THEN ParseFail
             ELSE IF Head(d) = 48 THEN ParseOk(JInt(0), Tail(d))
             ELSE ParseDigits(d, 0)
    IN  IF ~r.ok THEN ParseFail
        ELSE IF r.rest # <<>> /\ Head(r.rest) \in {DOT, 69, 101} THEN ParseFail
        ELSE IF neg THEN ParseOk(JInt(-r.val.n), r.rest)
        ELSE r

RECURSIVE ParseValue(_)
RECURSIVE ParseMembers(_, _)

ParseValue(s0) ==
    LET s == SkipWs(s0) IN
    IF s = <<>> THEN ParseFail
    ELSE IF Head(s) = QUOTE THEN ParseStrBody(Tail(s), <<>>)
    ELSE IF Head(s) = 123 THEN
        LET t == SkipWs(Tail(s)) IN
        IF t # <<>> /\ Head(t) = 125 THEN ParseOk(JObj(<<>>), Tail(t))
        ELSE ParseMembers(t, <<>>)
    ELSE IF Head(s) = MINUS \/ Head(s) \in Digits THEN ParseNumber(s)
    ELSE IF StartsWith(s, <<110, 117, 108, 108>>)
        THEN ParseOk(JNull, SubSeq(s, 5, Len(s)))
    ELSE IF StartsWith(s, <<116, 114, 117, 101>>)
        THEN ParseOk(JBool(TRUE), SubSeq(s, 5, Len(s)))
    ELSE IF StartsWith(s, <<102, 97, 108, 115, 101>>)
        THEN ParseOk(JBool(FALSE), SubSeq(s, 6, Len(s)))
    ELSE ParseFail

\* "key": value (, "key": value)* }
ParseMembers(s, acc) ==
    IF s = <<>> \/ Head(s) # QUOTE THEN ParseFail
    ELSE
        LET key == ParseStrBody(Tail(s), <<>>) IN
        IF ~key.ok THEN ParseFail
        ELSE
            LET c == SkipWs(key.rest) IN
            IF c = <<>> \/ Head(c) # 58 THEN ParseFail
            ELSE
                LET val == ParseValue(Tail(c)) IN
                IF ~val.ok THEN ParseFail
                ELSE
                    LET e == SkipWs(val.rest)
                        items == Append(acc, Item(key.val.s, val.val))
                    IN  IF e = <<>> THEN ParseFail
                        ELSE IF Head(e) = 125 THEN ParseOk(JObj(items), Tail(e))
                        ELSE IF Head(e) = 44
                            THEN ParseMembers(SkipWs(Tail(e)), items)
                        ELSE ParseFail

json_loads(text) ==
    LET r == ParseValue(text) IN
    IF r.ok /\ SkipWs(r.rest) = <<>> THEN Ret(r.val)
    ELSE Raise(Exc("JSONDecodeError"))

\* ----------------------------------------------------------------- state
VARIABLES
    now,                \* the wall clock, in ticks
    SECRET_KEY,         \* api/auth.py: the signing secret
    environ,            \* os.environ: ENABLE_API_KEY_AUTH and API_KEY
    fake_users_db,      \* api/auth.py: username -> user record
    MODEL,              \* api/main.py: the loaded classifier
    OPTIMAL_THRESHOLD,  \* api/main.py: the operating threshold, in tenths
    token,              \* the last token made by create_access_token
    issue,              \* the arguments and clock of that call
    call                \* the call or request being answered, with its outcome

vars == <<now, SECRET_KEY, environ, fake_users_db, MODEL, OPTIMAL_THRESHOLD,
          token, issue, call>>

NoCall == [fn |-> "none"]

\* ------------------------------------------------------- configuration
ACCESS_TOKEN_EXPIRE_MINUTES == 30

\* timedelta(minutes=m), in ticks
timedelta_minutes(m) == m * 60 * TicksPerSec

KeySub == <<115, 117, 98>>
KeyExp == <<101, 120, 112>>

\* --------------------------------------------------------- JWT functions
\* a signature that does not cover the payload
SignKeyOnly(payload) == sha256_hexdigest(SECRET_KEY)

_sign(payload) == sha256_hexdigest(payload \o SECRET_KEY)

\* "expires_delta or timedelta(minutes=...)": None and timedelta(0) are
\* both false
create_access_token(data, expires_delta) ==
    LET delta == IF expires_delta.some /\ expires_delta.v # 0
                 THEN expires_delta.v
                 ELSE timedelta_minutes(ACCESS_TOKEN_EXPIRE_MINUTES)
        expire == now + delta
        to_encode == DictUpdate(data, KeyExp, JInt(expire \div TicksPerSec))
        payload == urlsafe_b64encode(json_dumps(to_encode))
        signature == _sign(payload)
    IN  payload \o <<DOT>> \o signature

credentials_exception ==
    HTTPException(401, "Could not validate credentials")

\* TokenData(username=...): pydantic accepts a str (or None) only
TokenData(username) ==
    IF username.t = "str" THEN Ret([username |-> username.s, scopes |-> <<>>])
    ELSE Raise(Exc("ValidationError"))

\* The try block of decode_access_token, statement by statement; each
\* operator takes the values the statements before it have bound.

\* an expiry check that rejects during the second after "exp" only
ExpiredForASecond(username, exp) ==
    IF exp.t \notin {"int", "bool"} THEN Raise(Exc("TypeError"))
    ELSE IF exp.t = "int" /\ now > TicksPerSec * exp.n
                          /\ now <= TicksPerSec * (exp.n + 1)
        THEN Raise(credentials_exception)
    ELSE TokenData(username)

\* "if time.time() > exp: raise credentials_exception" and
\* "return TokenData(username=username)"; bool is a subclass of int
CheckExpiry(username, exp) ==
    IF exp.t \notin {"int", "bool"} THEN Raise(Exc("TypeError"))
    ELSE IF now > TicksPerSec * (IF exp.t = "int" THEN exp.n
                                 ELSE IF exp.b THEN 1 ELSE 0)
        THEN Raise(credentials_exception)
    ELSE TokenData(username)

\* "if not username or time.time() > exp"
CheckClaims(username, exp) ==
    IF ~Truthy(username) THEN Raise(credentials_exception)
    ELSE CheckExpiry(username, exp)

\* 'payload.get("sub")' and 'payload.get("exp", 0)'
ReadClaims(payload) ==
    IF payload.raised THEN payload
    ELSE IF payload.value.t # "obj" THEN Raise(Exc("AttributeError"))
    ELSE CheckClaims(DictGet(payload.value.items, KeySub, JNull),
                     DictGet(payload.value.items, KeyExp, JInt(0)))

\* "json.loads(...decode())" of the decoded bytes
LoadPayload(raw) ==
    IF raw.raised THEN raw ELSE ReadClaims(json_loads(raw.value))

\* "if signature != _sign(payload_b64): raise credentials_exception"
CheckSignature(payload_b64, signature) ==
    IF signature # _sign(payload_b64) THEN Raise(credentials_exception)
    ELSE LoadPayload(urlsafe_b64decode(payload_b64))

\* 'payload_b64, signature = token.split(".")'
Unpack(parts) ==
    IF Len(parts) # 2 THEN Raise(Exc("ValueError"))
    ELSE CheckSignature(parts[1], parts[2])

DecodeTry(tok) == Unpack(Split(tok, DOT))

\* "except Exception": every exception class raised in the try block is
\* an Exception
ExceptionClasses ==
    {"HTTPException", "ValueError", "binascii.Error", "JSONDecodeError",
     "AttributeError", "TypeError", "ValidationError"}

\* "except HTTPException" in the place of "except Exception"
CaughtHTTPExceptionOnly(e) == e.type = "HTTPException"

CaughtByExceptException(e) == e.type \in ExceptionClasses

\* "except Exception: raise credentials_exception" around the outcome r of
\* the try block
ExceptException(r) ==
    IF r.raised /\ CaughtByExceptException(r.exc)
    THEN Raise(credentials_exception)
    ELSE r

decode_access_token(tok) == ExceptException(DecodeTry(tok))


\* --------------------------------------------- authentication dependencies
\* "@example.com", "api@example.com", "api_key_user"
ExampleDomain == <<64, 101, 120, 97, 109, 112, 108, 101, DOT, 99, 111, 109>>
ApiMail == <<97, 112, 105>> \o ExampleDomain
ApiKeyUserName == <<97, 112, 105, 95, 107, 101, 121, 95, 117, 115, 101, 114>>

\* User(username, email, full_name, disabled); the optional fields are
\* NoneV when not given
User(username, email, full_name, disabled) ==
    [username |-> username, email |-> email, full_name |-> full_name,
     disabled |-> disabled]

\* security = HTTPBearer(auto_error=False): the credentials of the
\* Authorization header, None without a header or with an empty token
HTTPBearer(authorization) ==
    IF ~authorization.some \/ authorization.v = <<>> THEN NoneV
    ELSE authorization

\* api_key_header = APIKeyHeader(name="X-API-Key", auto_error=False)
APIKeyHeader(x_api_key) ==
    IF ~x_api_key.some \/ x_api_key.v = <<>> THEN NoneV ELSE x_api_key

not_authenticated == HTTPException(403, "Not authenticated")

\* "user = User(username=token_data.username, ...)" on the outcome of
\* decode_access_token
UserOfToken(token_data) ==
    IF token_data.raised THEN token_data
    ELSE Ret(User(token_data.value.username,
                  Some(token_data.value.username \o ExampleDomain),
                  Some(Title(token_data.value.username)),
                  Some(FALSE)))

\* a gate that decodes whatever token is present, the empty one included
DecodeWhenPresent(credentials) ==
    IF ~credentials.some THEN Raise(not_authenticated)
    ELSE UserOfToken(decode_access_token(credentials.v))

\* a gate that lets a request without credentials through
AnonymousWhenMissing(credentials) ==
    IF ~credentials.some \/ credentials.v = <<>>
    THEN Ret(User(<<97>>, NoneV, NoneV, Some(FALSE)))
    ELSE UserOfToken(decode_access_token(credentials.v))

get_current_user(credentials) ==
    IF ~credentials.some \/ credentials.v = <<>> THEN Raise(not_authenticated)
    ELSE UserOfToken(decode_access_token(credentials.v))

\* current_user is the outcome of Depends(get_current_user)
get_current_active_user(current_user) ==
    IF current_user.raised THEN current_user
    ELSE IF current_user.value.disabled = Some(TRUE)
        THEN Raise(HTTPException(400, "Inactive user"))
    ELSE current_user

\* os.getenv(name, default)
getenv(name, default) == IF environ[name].some THEN environ[name].v ELSE default

StrTrue == <<116, 114, 117, 101>>
StrFalse == <<102, 97, 108, 115, 101>>

Lowercase(s) == [i \in 1..Len(s) |-> ToLower(s[i])]

verify_api_key(api_key) ==
    IF ~(Lowercase(getenv("ENABLE_API_KEY_AUTH", StrFalse)) = StrTrue)
    THEN Ret(TRUE)
    ELSE IF ~environ["API_KEY"].some \/ environ["API_KEY"].v = <<>>
        THEN Ret(TRUE)
    ELSE IF ~api_key.some \/ api_key.v # environ["API_KEY"].v
        THEN Raise(HTTPException(401, "Invalid or missing API Key"))
    ELSE Ret(TRUE)

\* the bearer branch without its "except HTTPException"
ReturnOrRaise(r) == IF ~r.raised THEN Ret(Some(r.value)) ELSE r

\* "try: return await get_current_user(credentials)
\*  except HTTPException: pass" on the outcome r of get_current_user;
\* NoneV stands for falling through
ReturnOrPass(r) ==
    IF ~r.raised THEN Ret(Some(r.value))
    ELSE IF r.exc.type = "HTTPException" THEN Ret(NoneV)
    ELSE r

\* "if credentials: ..."
TryJWT(credentials) ==
    IF ~credentials.some THEN Ret(NoneV)
    ELSE ReturnOrPass(get_current_user(credentials))

\* "try: await verify_api_key(api_key); return User(...)
\*  except HTTPException: pass" on the outcome r of verify_api_key
ApiKeyUserOrPass(r) ==
    IF ~r.raised THEN Ret(Some(User(ApiKeyUserName, Some(ApiMail), NoneV, NoneV)))
    ELSE IF r.exc.type = "HTTPException" THEN Ret(NoneV)
    ELSE r

\* "if api_key: ..."
TryAPIKey(api_key) ==
    IF ~api_key.some \/ api_key.v = <<>> THEN Ret(NoneV)
    ELSE ApiKeyUserOrPass(verify_api_key(api_key))

\* a gate that tries the API key before the bearer token
APIKeyFirst(jwt, api_key) ==
    IF TryAPIKey(api_key) # Ret(NoneV) THEN TryAPIKey(api_key) ELSE jwt

\* the API key is tried when the bearer branch fell through; jwt is the
\* outcome of the bearer branch
OrAPIKey(jwt, api_key) ==
    IF jwt.raised \/ jwt.value.some THEN jwt ELSE TryAPIKey(api_key)

\* the value is Some(user), or NoneV for "no identity"
get_current_user_optional(credentials, api_key) ==
    OrAPIKey(TryJWT(credentials), api_key)

\* ------------------------------------------------- mock user database
get_password_hash(password) == sha256_hexdigest(password)

verify_password(plain_password, hashed_password) ==
    hashed_password = get_password_hash(plain_password)

\* "admin", "testuser" and their passwords "admin123", "test123"
NameAdmin == <<97, 100, 109, 105, 110>>
NameTestuser == <<116, 101, 115, 116, 117, 115, 101, 114>>
PwAdmin == <<97, 100, 109, 105, 110, 49, 50, 51>>
PwTestuser == <<116, 101, 115, 116, 49, 50, 51>>

\* "@frauddetection.com"
FraudDomain ==
    <<64, 102, 114, 97, 117, 100, 100, 101, 116, 101, 99, 116, 105, 111, 110,
      DOT, 99, 111, 109>>

InitialUsers ==
    [u \in {NameAdmin, NameTestuser} |->
        IF u = NameAdmin
        THEN [username |-> NameAdmin,
              full_name |-> <<65, 100, 109, 105, 110, SPACE, 85, 115, 101, 114>>,
              email |-> NameAdmin \o FraudDomain,
              hashed_password |-> get_password_hash(PwAdmin),
              disabled |-> FALSE]
        ELSE [username |-> NameTestuser,
              full_name |-> <<84, 101, 115, 116, SPACE, 85, 115, 101, 114>>,
              email |-> <<116, 101, 115, 116>> \o FraudDomain,
              hashed_password |-> get_password_hash(PwTestuser),
              disabled |-> FALSE]]

\* the value is Some(user), or NoneV
authenticate_user(username, password) ==
    IF username \notin DOMAIN fake_users_db THEN NoneV
    ELSE
        LET user_dict == fake_users_db[username] IN
        IF ~verify_password(password, user_dict.hashed_password) THEN NoneV
        ELSE Some(User(user_dict.username, Some(user_dict.email),
                       Some(user_dict.full_name), Some(user_dict.disabled)))


\* ------------------------------------------------------------ the service
\* load_model(): the trained model, the fallback model, or the dummy
\* model of the last resort; never None
load_model(found) == Some(IF found THEN "trained" ELSE "dummy")

\* MODEL.predict_proba(features)[0, 1]: the trained model's score of a
\* transaction is given with the transaction; the dummy model answers 0.9
predict_proba(transaction) ==
    IF MODEL.v = "dummy" THEN 9 ELSE transaction.score

classify_risk_level(probability) ==
    IF probability < 3 THEN "LOW"
    ELSE IF probability < 5 THEN "MEDIUM"
    ELSE IF probability < 7 THEN "HIGH"
    ELSE "CRITICAL"

MODEL_VERSION == "1.0.0"
BATCH_MAX_LENGTH == 1000

Response(status, body, ran) == [status |-> status, body |-> body, ran |-> ran]

\* an exception raised while the dependencies are solved: the handler
\* does not run
ErrorResponse(exc) ==
    IF exc.type = "HTTPException"
    THEN Response(exc.status_code, [detail |-> exc.detail], FALSE)
    ELSE Response(500, [detail |-> "Internal Server Error"], FALSE)

ValidationErrorResponse == Response(422, [detail |-> "validation error"], FALSE)

\* current_user: User = Depends(get_current_active_user)
CurrentActiveUser(authorization) ==
    get_current_active_user(get_current_user(HTTPBearer(authorization)))

\* TransactionInput: Amount has ge=0
ValidTransaction(transaction) == transaction.Amount >= 0

PredictionResponse(transaction) ==
    LET fraud_probability == predict_proba(transaction) IN
    [fraud_probability |-> fraud_probability,
     is_fraud |-> fraud_probability >= OPTIMAL_THRESHOLD,
     risk_level |-> classify_risk_level(fraud_probability),
     threshold_used |-> OPTIMAL_THRESHOLD,
     model_version |-> MODEL_VERSION,
     prediction_timestamp |-> now]

\* a login that tells an unknown user from a wrong password
RevealingLogin(username, password) ==
    IF username \notin DOMAIN fake_users_db
    THEN Response(401, [detail |-> "Unknown user"], TRUE)
    ELSE IF ~authenticate_user(username, password).some
        THEN Response(401, [detail |-> "Incorrect username or password"], TRUE)
    ELSE Response(200,
            [access_token |->
                create_access_token(<<Item(KeySub, JStr(username))>>,
                    Some(timedelta_minutes(ACCESS_TOKEN_EXPIRE_MINUTES))),
             token_type |-> "bearer"], TRUE)

\* POST /token
login(username, password) ==
    LET user == authenticate_user(username, password) IN
    IF ~user.some
    THEN Response(401, [detail |-> "Incorrect username or password"], TRUE)
    ELSE Response(200,
            [access_token |->
                create_access_token(<<Item(KeySub, JStr(user.v.username))>>,
                    Some(timedelta_minutes(ACCESS_TOKEN_EXPIRE_MINUTES))),
             token_type |-> "bearer"], TRUE)

\* The protected handlers take current_user, the outcome of
\* Depends(get_current_active_user): the dependencies are solved first,
\* then the body is validated, then the handler runs.

\* GET /users/me
read_users_me(current_user) ==
    IF current_user.raised THEN ErrorResponse(current_user.exc)
    ELSE Response(200, current_user.value, TRUE)

\* POST /api/v1/predict
predict_single(transaction, current_user) ==
    IF current_user.raised THEN ErrorResponse(current_user.exc)
    ELSE IF ~ValidTransaction(transaction) THEN ValidationErrorResponse
    ELSE IF ~MODEL.some THEN Response(503, [detail |-> "Model not loaded"], TRUE)
    ELSE Response(200, PredictionResponse(transaction), TRUE)

\* a count that takes every prediction for a fraud
CountAll(predictions) == Len(predictions)

\* "sum(1 for p in predictions if p.is_fraud)"
FraudCount(predictions) ==
    Cardinality({i \in 1..Len(predictions) : predictions[i].is_fraud})

\* BatchPredictionResponse(...); fraud_rate is the fraction num/den
BatchPredictionResponse(predictions, fraud_count) ==
    [predictions |-> predictions,
     total_transactions |-> Len(predictions),
     fraud_count |-> fraud_count,
     fraud_rate |-> IF predictions # <<>>
                    THEN [num |-> fraud_count, den |-> Len(predictions)]
                    ELSE [num |-> 0, den |-> 1],
     processing_time |-> 0]

BatchOf(predictions) == BatchPredictionResponse(predictions, FraudCount(predictions))

\* POST /api/v1/predict/batch
predict_batch(request, current_user) ==
    IF current_user.raised THEN ErrorResponse(current_user.exc)
    ELSE IF Len(request) > BATCH_MAX_LENGTH
            \/ \E i \in 1..Len(request) : ~ValidTransaction(request[i])
        THEN ValidationErrorResponse
    ELSE IF ~MODEL.some THEN Response(503, [detail |-> "Model not loaded"], TRUE)
    ELSE Response(200,
            BatchOf([i \in 1..Len(request) |-> PredictionResponse(request[i])]),
            TRUE)

\* the handler without the range of its query parameter
UpdateUnvalidated(new_threshold, current_user) ==
    IF current_user.raised THEN ErrorResponse(current_user.exc)
    ELSE Response(200,
            [message |-> "Threshold updated successfully",
             old_threshold |-> OPTIMAL_THRESHOLD,
             new_threshold |-> new_threshold,
             timestamp |-> now], TRUE)

\* PUT /api/v1/model/threshold: new_threshold has ge=0, le=1 (10 tenths)
update_threshold(new_threshold, current_user) ==
    IF current_user.raised THEN ErrorResponse(current_user.exc)
    ELSE IF new_threshold < 0 \/ new_threshold > 10 THEN ValidationErrorResponse
    ELSE Response(200,
            [message |-> "Threshold updated successfully",
             old_threshold |-> OPTIMAL_THRESHOLD,
             new_threshold |-> new_threshold,
             timestamp |-> now], TRUE)

\* ------------------------------------------------------ inputs and Init
\* the clock at start: one second
StartClock == TicksPerSec

\* subjects "a" and q" (a quote, which json.dumps escapes)
Subjects == {<<97>>, <<113, QUOTE>>}

\* the data dicts handed to create_access_token: {"sub": s}, {"sub": ""}, {}
DataDicts == {<<Item(KeySub, JStr(s))>> : s \in Subjects \cup {<<>>}} \cup {<<>>}

\* expires_delta: None, or a timedelta of -1 .. MaxDelta ticks
Deltas == {NoneV} \cup {Some(d) : d \in (-1)..MaxDelta}

\* JWT_SECRET_KEY as configured, and a key the server does not hold
ConfiguredSecret == <<115, 51, 99>>
OtherSecret == <<120, 120>>

InitCommon ==
    /\ now = StartClock
    /\ SECRET_KEY = ConfiguredSecret
    /\ fake_users_db = InitialUsers
    /\ OPTIMAL_THRESHOLD = 5
    /\ token = NoneV
    /\ issue = NoneV
    /\ call = NoCall

\* ------------------------------------------------------------- the clock
\* one default token lifetime and a second
JumpTicks == timedelta_minutes(ACCESS_TOKEN_EXPIRE_MINUTES) + TicksPerSec

Tick ==
    /\ call = NoCall
    /\ (now - StartClock) % JumpTicks < MaxTicks
    /\ now' = now + 1
    /\ UNCHANGED <<SECRET_KEY, environ, fake_users_db, MODEL,
                   OPTIMAL_THRESHOLD, token, issue, call>>

\* the clock moved forward past one default token lifetime
Jump ==
    /\ call = NoCall
    /\ now - StartClock < MaxJumps * JumpTicks
    /\ now' = now + JumpTicks
    /\ UNCHANGED <<SECRET_KEY, environ, fake_users_db, MODEL,
                   OPTIMAL_THRESHOLD, token, issue, call>>

\* the answer to the call has been delivered
Return ==
    /\ call # NoCall
    /\ call' = NoCall
    /\ UNCHANGED <<now, SECRET_KEY, environ, fake_users_db, MODEL,
                   OPTIMAL_THRESHOLD, token, issue>>

\* ------------------------------------------- the token functions, called
\* create_access_token(data, expires_delta) called at the current clock
CreateToken(data, expires_delta) ==
    /\ call = NoCall
    /\ token' = Some(create_access_token(data, expires_delta))
    /\ issue' = Some([data |-> data, expires_delta |-> expires_delta, at |-> now])
    /\ UNCHANGED <<now, SECRET_KEY, environ, fake_users_db, MODEL,
                   OPTIMAL_THRESHOLD, call>>

DecodeCall(kind, tok, pos) ==
    [fn |-> "decode_access_token", kind |-> kind, token |-> tok, pos |-> pos,
     at |-> now, out |-> decode_access_token(tok)]

\* decode_access_token on the token as issued
DecodeIssued ==
    /\ call = NoCall
    /\ token.some
    /\ call' = DecodeCall("issued", token.v, 0)
    /\ UNCHANGED <<now, SECRET_KEY, environ, fake_users_db, MODEL,
                   OPTIMAL_THRESHOLD, token, issue>>

\* the characters one character of a token is replaced by
TamperSet(ch) == {DOT, PAD, ch + 1, ToUpper(ch), ToLower(ch)} \ {ch}

SeparatorAt(tok) == CHOOSE i \in 1..Len(tok) : tok[i] = DOT

\* decode_access_token on a valid token with the character at i replaced
DecodeTampered(i, c) ==
    /\ i \in 1..Len(token.v)
    /\ i # SeparatorAt(token.v)
    /\ c \in TamperSet(token.v[i])
    /\ call' = DecodeCall("tampered", [token.v EXCEPT ![i] = c], i)
    /\ UNCHANGED <<now, SECRET_KEY, environ, fake_users_db, MODEL,
                   OPTIMAL_THRESHOLD, token, issue>>

\* a token that validates now is presented with one character replaced
Tamper ==
    /\ call = NoCall
    /\ token.some
    /\ ~decode_access_token(token.v).raised
    /\ \E i \in 1..Len(token.v) :
          \E c \in TamperSet(token.v[i]) : DecodeTampered(i, c)

\* strings made without create_access_token
SignedWith(payload_b64, key) ==
    payload_b64 \o <<DOT>> \o sha256_hexdigest(payload_b64 \o key)

Forged(text) == SignedWith(urlsafe_b64encode(text), SECRET_KEY)

FarExp == 9999

CraftedNames ==
    {"empty", "no_separator", "two_separators", "only_separator", "other_key",
     "bad_padding", "truncated_json", "not_an_object", "no_sub", "empty_sub",
     "null_sub", "int_sub", "str_exp", "no_exp", "well_formed"}

\* "invalid-token"
InvalidToken ==
    <<105, 110, 118, 97, 108, 105, 100, MINUS, 116, 111, 107, 101, 110>>

GoodClaims == json_dumps(<<Item(KeySub, JStr(<<97>>)), Item(KeyExp, JInt(FarExp))>>)

Crafted(name) ==
    CASE name = "empty" -> <<>>
      [] name = "no_separator" -> InvalidToken
      [] name = "two_separators" -> <<97, DOT, 98, DOT, 99>>
      [] name = "only_separator" -> <<DOT>>
      [] name = "other_key" -> SignedWith(urlsafe_b64encode(GoodClaims), OtherSecret)
      [] name = "bad_padding" -> SignedWith(<<101, 51, 48>>, SECRET_KEY)
      [] name = "truncated_json" ->
            Forged(SubSeq(GoodClaims, 1, Len(GoodClaims) - 1))
      [] name = "not_an_object" -> Forged(DumpVal(JNull))
      [] name = "no_sub" -> Forged(json_dumps(<<Item(KeyExp, JInt(FarExp))>>))
      [] name = "empty_sub" ->
            Forged(json_dumps(<<Item(KeySub, JStr(<<>>)), Item(KeyExp, JInt(FarExp))>>))
      [] name = "null_sub" ->
            Forged(json_dumps(<<Item(KeySub, JNull), Item(KeyExp, JInt(FarExp))>>))
      [] name = "int_sub" ->
            Forged(json_dumps(<<Item(KeySub, JInt(5)), Item(KeyExp, JInt(FarExp))>>))
      [] name = "str_exp" ->
            Forged(json_dumps(<<Item(KeySub, JStr(<<97>>)), Item(KeyExp, JStr(<<120>>))>>))
      [] name = "no_exp" -> Forged(json_dumps(<<Item(KeySub, JStr(<<97>>))>>))
      [] OTHER -> Forged(GoodClaims)

\* decode_access_token on a crafted string
DecodeCrafted(name) ==
    /\ call = NoCall
    /\ call' = DecodeCall(name, Crafted(name), 0)
    /\ UNCHANGED <<now, SECRET_KEY, environ, fake_users_db, MODEL,
                   OPTIMAL_THRESHOLD, token, issue>>

\* ------------------------------------------------- requests to the service
\* API keys "k1" (the one configured, when one is) and "k2"
KeyOne == <<107, 49>>
KeyTwo == <<107, 50>>

Environs ==
    {[ENABLE_API_KEY_AUTH |-> e, API_KEY |-> k] :
        e \in {NoneV, Some(<<84, 114, 117, 101>>)}, k \in {NoneV, Some(KeyOne)}}

\* what a client puts in the Authorization header: nothing, the token it
\* was issued, that token with its last character replaced, "invalid-token"
Presented ==
    {[kind |-> "none", header |-> NoneV],
     [kind |-> "garbage", header |-> Some(InvalidToken)]}
    \cup (IF token.some
          THEN {[kind |-> "issued", header |-> token],
                [kind |-> "tampered",
                 header |-> Some([token.v EXCEPT ![Len(token.v)] =
                                    IF @ = 48 THEN 49 ELSE 48])]}
          ELSE {})

\* the X-API-Key header of a request to an endpoint, and the api_key handed
\* to the optional gate (absent, empty, the configured one, another one)
HeaderKeys == {NoneV, Some(KeyOne)}
ApiKeys == {NoneV, Some(<<>>), Some(KeyOne), Some(KeyTwo)}

Scores == {4, 9}
Transactions ==
    {[Amount |-> 10, score |-> s] : s \in Scores} \cup {[Amount |-> -1, score |-> 4]}

RECURSIVE SeqsUpTo(_, _)
SeqsUpTo(S, n) ==
    IF n = 0 THEN {<<>>}
    ELSE LET shorter == SeqsUpTo(S, n - 1) IN
         shorter \cup {Append(s, x) : s \in {q \in shorter : Len(q) = n - 1}, x \in S}

\* new_threshold in tenths: below 0, the ends 0 and 1 of the range, above 1
ThresholdInputs == {-1, 0, 10, 11}

Usernames == {NameAdmin, NameTestuser, <<110, 111, 98, 111, 100, 121>>}
Passwords == {PwAdmin, PwTestuser}

Request(fn, a, k, args, resp) ==
    [fn |-> fn, kind |-> a.kind, authorization |-> a.header, x_api_key |-> k,
     args |-> args, at |-> now, resp |-> resp]

\* a login that replaces the signing key when it succeeds
LoginRotatingKey(username, password) ==
    /\ call = NoCall
    /\ call' = Request("login", [kind |-> "none", header |-> NoneV], NoneV,
                       [username |-> username, password |-> password],
                       login(username, password))
    /\ SECRET_KEY' = IF call'.resp.status = 200 THEN OtherSecret ELSE SECRET_KEY
    /\ UNCHANGED <<now, environ, fake_users_db, MODEL, OPTIMAL_THRESHOLD,
                   token, issue>>

Login(username, password) ==
    /\ call = NoCall
    /\ call' = Request("login", [kind |-> "none", header |-> NoneV], NoneV,
                       [username |-> username, password |-> password],
                       login(username, password))
    /\ IF call'.resp.status = 200
       THEN /\ token' = Some(call'.resp.body.access_token)
            /\ issue' = Some([data |-> <<Item(KeySub, JStr(username))>>,
                              expires_delta |->
                                Some(timedelta_minutes(ACCESS_TOKEN_EXPIRE_MINUTES)),
                              at |-> now])
       ELSE UNCHANGED <<token, issue>>
    /\ UNCHANGED <<now, SECRET_KEY, environ, fake_users_db, MODEL, OPTIMAL_THRESHOLD>>

ReadUsersMe(a, k) ==
    /\ call = NoCall
    /\ call' = Request("read_users_me", a, k, <<>>, read_users_me(CurrentActiveUser(a.header)))
    /\ UNCHANGED <<now, SECRET_KEY, environ, fake_users_db, MODEL,
                   OPTIMAL_THRESHOLD, token, issue>>

PredictSingle(a, k, transaction) ==
    /\ call = NoCall
    /\ call' = Request("predict_single", a, k, transaction,
                       predict_single(transaction, CurrentActiveUser(a.header)))
    /\ UNCHANGED <<now, SECRET_KEY, environ, fake_users_db, MODEL,
                   OPTIMAL_THRESHOLD, token, issue>>

PredictBatch(a, k, transactions) ==
    /\ call = NoCall
    /\ call' = Request("predict_batch", a, k, transactions,
                       predict_batch(transactions, CurrentActiveUser(a.header)))
    /\ UNCHANGED <<now, SECRET_KEY, environ, fake_users_db, MODEL,
                   OPTIMAL_THRESHOLD, token, issue>>

\* "global OPTIMAL_THRESHOLD; OPTIMAL_THRESHOLD = new_threshold" when the
\* handler body runs
UpdateThreshold(a, k, new_threshold) ==
    /\ call = NoCall
    /\ call' = Request("update_threshold", a, k, new_threshold,
                       update_threshold(new_threshold, CurrentActiveUser(a.header)))
    /\ OPTIMAL_THRESHOLD' = IF call'.resp.ran THEN new_threshold
                            ELSE OPTIMAL_THRESHOLD
    /\ UNCHANGED <<now, SECRET_KEY, environ, fake_users_db, MODEL, token, issue>>

\* the gates called with the credentials as given (a present, empty token
\* included)
GateCall(fn, a, k, out) ==
    [fn |-> fn, kind |-> a.kind, credentials |-> a.header, api_key |-> k,
     at |-> now, out |-> out]

GateInputs == Presented \cup {[kind |-> "empty", header |-> Some(<<>>)]}

StrictGate(a) ==
    /\ call = NoCall
    /\ call' = GateCall("get_current_user", a, NoneV, get_current_user(a.header))
    /\ UNCHANGED <<now, SECRET_KEY, environ, fake_users_db, MODEL,
                   OPTIMAL_THRESHOLD, token, issue>>

OptionalGate(a, k) ==
    /\ call = NoCall
    /\ call' = GateCall("get_current_user_optional", a, k,
                        get_current_user_optional(a.header, k))
    /\ UNCHANGED <<now, SECRET_KEY, environ, fake_users_db, MODEL,
                   OPTIMAL_THRESHOLD, token, issue>>

Init ==
    /\ InitCommon
    /\ environ \in Environs
    /\ MODEL \in {load_model(found) : found \in BOOLEAN}

Next ==
    \/ Jump
    \/ Return
    \/ \E u \in Usernames, pw \in Passwords : Login(u, pw)
    \/ \E a \in Presented, k \in HeaderKeys : ReadUsersMe(a, k)
    \/ \E a \in Presented, k \in HeaderKeys, x \in Transactions : PredictSingle(a, k, x)
    \/ \E a \in Presented, k \in HeaderKeys, xs \in SeqsUpTo(Transactions, MaxBatch) :
          PredictBatch(a, k, xs)
    \/ \E a \in Presented, k \in HeaderKeys, v \in ThresholdInputs :
          UpdateThreshold(a, k, v)
    \/ \E a \in GateInputs : StrictGate(a)
    \/ \E a \in GateInputs, k \in ApiKeys : OptionalGate(a, k)

Spec == Init /\ [][Next]_vars

\* ---------------------------------------- the token functions on their own
TokenInit ==
    /\ InitCommon
    /\ environ = [ENABLE_API_KEY_AUTH |-> NoneV, API_KEY |-> NoneV]
    /\ MODEL = load_model(TRUE)

TokenNext ==
    \/ Tick
    \/ Jump
    \/ Return
    \/ \E data \in DataDicts, d \in Deltas : CreateToken(data, d)
    \/ DecodeIssued
    \/ Tamper
    \/ \E name \in CraftedNames : DecodeCrafted(name)

SpecToken == TokenInit /\ [][TokenNext]_vars

\* ------------------------------------------------- the token scheme: claims
\* a call of decode_access_token on the token as issued, answered at the
\* clock of its issuance
DecodedAtIssuance ==
    /\ call.fn = "decode_access_token"
    /\ call.kind = "issued"
    /\ issue.some
    /\ call.at = issue.v.at

\* the data dict is {"sub": s} with s not empty
SubjectOf(data) == data[1].v.s

HasSubject(data) ==
    /\ Len(data) = 1
    /\ data[1].k = KeySub
    /\ data[1].v.t = "str"
    /\ data[1].v.s # <<>>

Accepted(out, s) == out = Ret([username |-> s, scopes |-> <<>>])

Rejected(out) == out = Raise(credentials_exception)

\* C1: for every non-empty subject s and every positive lifetime,
\* decode_access_token(create_access_token({"sub": s}, lifetime)) at the
\* issuance clock succeeds and returns username = s.
C1_RoundTrip ==
    (/\ DecodedAtIssuance
     /\ HasSubject(issue.v.data)
     /\ issue.v.expires_delta.some
     /\ issue.v.expires_delta.v > 0)
        => Accepted(call.out, SubjectOf(issue.v.data))

\* a token of subject "a" and a lifetime of one tick (a third of a second),
\* issued at 1.33 s, is rejected at 1.33 s: its exp claim is 1
C1_SubSecondRejected ==
    /\ DecodedAtIssuance
    /\ HasSubject(issue.v.data)
    /\ issue.v.expires_delta = Some(1)
    /\ Rejected(call.out)

\* the "exp" claim a token carries, in seconds
ExpClaim(tok) ==
    DictGet(json_loads(urlsafe_b64decode(Split(tok, DOT)[1]).value).value.items,
            KeyExp, JInt(0)).n

\* C2: a token issued with a lifetime of 0 seconds, or any token validated
\* at a clock value past its exp claim, is rejected by decode_access_token.
C2_Expiry ==
    (/\ call.fn = "decode_access_token"
     /\ call.kind = "issued"
     /\ issue.some
     /\ \/ issue.v.expires_delta = Some(0)
        \/ call.at > TicksPerSec * ExpClaim(call.token))
        => Rejected(call.out)

\* a token issued with timedelta(0) is accepted at its issuance and carries
\* the default lifetime
C2_ZeroLifetimeAccepted ==
    /\ DecodedAtIssuance
    /\ HasSubject(issue.v.data)
    /\ issue.v.expires_delta = Some(0)
    /\ Accepted(call.out, SubjectOf(issue.v.data))
    /\ ExpClaim(call.token) =
        (call.at + timedelta_minutes(ACCESS_TOKEN_EXPIRE_MINUTES)) \div TicksPerSec

\* a call of decode_access_token on a token that validated, with the
\* character at call.pos replaced by another one
Tampered == call.fn = "decode_access_token" /\ call.kind = "tampered"

\* C3: for every valid token, replacing any single character of the payload
\* segment or of the signature segment by a different character yields a
\* string that decode_access_token rejects.
C3_TamperEvident ==
    Tampered =>
        /\ call.pos # SeparatorAt(token.v)
        /\ call.token # token.v
        /\ Rejected(call.out)

\* a character of the payload segment replaced in a way that leaves the
\* payload decodable to claims with another subject: the signature alone
\* rejects it
C3_PayloadTamperRejected ==
    /\ Tampered
    /\ call.pos < SeparatorAt(token.v)
    /\ ~DecodeTry(SignedWith(Split(call.token, DOT)[1], SECRET_KEY)).raised
    /\ Rejected(call.out)

\* the causes of failure of C4, by the crafted strings that have them
FailingNames == CraftedNames \ {"well_formed"}

\* C4: every failing validation of a presented token produces the same
\* rejection, 401 "Could not validate credentials", whatever the cause,
\* and validation never ends in an exception of another kind.
C4_UniformRejection ==
    call.fn = "decode_access_token" =>
        /\ call.out.raised => Rejected(call.out)
        /\ call.kind \in FailingNames => Rejected(call.out)
        /\ (call.kind = "issued" /\ call.at > TicksPerSec * ExpClaim(call.token))
              => Rejected(call.out)

\* a token whose "exp" is a string (the comparison with the clock raises
\* TypeError inside the try block) is rejected like any other
C4_TypeErrorRejected ==
    /\ call.fn = "decode_access_token"
    /\ call.kind = "str_exp"
    /\ DecodeTry(call.token) = Raise(Exc("TypeError"))
    /\ Rejected(call.out)

\* ------------------------------------------------------- the gates: claims
StrictGateCall == call.fn = "get_current_user"
OptionalGateCall == call.fn = "get_current_user_optional"

Missing(credentials) == ~credentials.some \/ credentials.v = <<>>

\* the bearer token is the one login issued and the clock is not past its
\* exp claim
ValidBearer(kind, header, at) ==
    /\ kind = "issued"
    /\ header.some
    /\ at <= TicksPerSec * ExpClaim(header.v)

\* API-key auth is enabled, a key is configured, and k is that key
ApiKeyAuthEnabled ==
    /\ environ["ENABLE_API_KEY_AUTH"].some
    /\ Lowercase(environ["ENABLE_API_KEY_AUTH"].v) = StrTrue

KeyConfigured == environ["API_KEY"].some /\ environ["API_KEY"].v # <<>>

ValidApiKey(k) ==
    /\ ApiKeyAuthEnabled
    /\ KeyConfigured
    /\ k.some
    /\ k.v = environ["API_KEY"].v

\* C5: in the strict gate, absent or empty bearer credentials produce the
\* "Not authenticated" rejection (403), a different kind from the rejection
\* of a present but invalid token (401); a present token never yields the
\* missing-credentials kind and absent credentials never yield the
\* invalid-credentials kind.
C5_MissingVersusInvalid ==
    StrictGateCall =>
        /\ not_authenticated.status_code = 403
        /\ credentials_exception.status_code = 401
        /\ Missing(call.credentials) => call.out = Raise(not_authenticated)
        /\ ~Missing(call.credentials) => call.out # Raise(not_authenticated)
        /\ (/\ ~Missing(call.credentials)
            /\ ~ValidBearer(call.kind, call.credentials, call.at))
              => call.out = Raise(credentials_exception)

\* an Authorization header with an empty token is answered 403
C5_EmptyTokenNotAuthenticated ==
    /\ StrictGateCall
    /\ call.credentials = Some(<<>>)
    /\ call.out = Raise(HTTPException(403, "Not authenticated"))

\* the identity a gate call resolved to; NoneV when it resolved to none
Resolved ==
    IF call.out.raised THEN NoneV
    ELSE IF StrictGateCall THEN Some(call.out.value)
    ELSE call.out.value

\* C6: whenever a bearer token is present and validates, the resolved
\* identity has username equal to the token's sub claim, in the strict and
\* in the optional gate, whether or not an API key is presented as well.
C6_BearerFirst ==
    (/\ StrictGateCall \/ OptionalGateCall
     /\ ValidBearer(call.kind, call.credentials, call.at))
        => /\ Resolved.some
           /\ Resolved.v.username = SubjectOf(issue.v.data)

\* the optional gate given a valid bearer token together with the valid
\* API key resolves to the token's subject
C6_BearerBeatsValidKey ==
    /\ OptionalGateCall
    /\ ValidBearer(call.kind, call.credentials, call.at)
    /\ ValidApiKey(call.api_key)
    /\ Resolved.some
    /\ Resolved.v.username = SubjectOf(issue.v.data)
    /\ Resolved.v.username # ApiKeyUserName

\* C7: in the optional gate, a presented API key resolves to the API-key
\* identity "api_key_user" only if API-key auth is enabled, a key is
\* configured and the presented key equals it; if neither a bearer token
\* nor an API key validates, the gate resolves to None.
C7_ApiKeyIdentity ==
    OptionalGateCall =>
        /\ (Resolved.some /\ Resolved.v.username = ApiKeyUserName)
              => ValidApiKey(call.api_key)
        /\ (/\ ~ValidBearer(call.kind, call.credentials, call.at)
            /\ ~ValidApiKey(call.api_key))
              => call.out = Ret(NoneV)

\* with ENABLE_API_KEY_AUTH unset, no bearer token and the key "k2", the
\* optional gate resolves to api_key_user
C7_DisabledKeyAccepted ==
    /\ OptionalGateCall
    /\ call.credentials = NoneV
    /\ ~ApiKeyAuthEnabled
    /\ call.api_key = Some(KeyTwo)
    /\ call.out = Ret(Some(User(ApiKeyUserName, Some(ApiMail), NoneV, NoneV)))

\* C8: the optional gate never raises, whatever bearer token and API key
\* are presented: it returns an identity or None; with no token, no API
\* key and API-key auth disabled it returns None, where the strict gate
\* raises "Not authenticated".
C8_OptionalNeverRaises ==
    /\ OptionalGateCall =>
        /\ ~call.out.raised
        /\ (/\ call.credentials = NoneV
            /\ call.api_key = NoneV
            /\ ~ApiKeyAuthEnabled) => call.out = Ret(NoneV)
    /\ (StrictGateCall /\ call.credentials = NoneV)
          => call.out = Raise(not_authenticated)

\* an invalid bearer token and a wrong API key, with API-key auth on: both
\* rejections are swallowed and the gate returns None
C8_BothRejectionsSwallowed ==
    /\ OptionalGateCall
    /\ call.kind = "garbage"
    /\ get_current_user(call.credentials).raised
    /\ ApiKeyAuthEnabled
    /\ KeyConfigured
    /\ call.api_key = Some(KeyTwo)
    /\ verify_api_key(call.api_key).raised
    /\ call.out = Ret(NoneV)

\* --------------------------------------------------- the endpoints: claims
ProtectedEndpoints ==
    {"read_users_me", "predict_single", "predict_batch", "update_threshold"}

Authorized(resp) == resp.status \notin {401, 403}

\* C9: predict, predict/batch and model/threshold accept either method: a
\* request with a valid JWT bearer token, or with a valid API key and no
\* bearer token, is authorized.
C9_EitherMethod ==
    (/\ call.fn \in {"predict_single", "predict_batch", "update_threshold"}
     /\ \/ ValidBearer(call.kind, call.authorization, call.at)
        \/ call.authorization = NoneV /\ ValidApiKey(call.x_api_key))
        => Authorized(call.resp)

\* a request to predict with the configured API key and no bearer token is
\* answered 403 "Not authenticated"
C9_ApiKeyRefused ==
    /\ call.fn = "predict_single"
    /\ call.authorization = NoneV
    /\ ValidApiKey(call.x_api_key)
    /\ ValidTransaction(call.args)
    /\ call.resp = Response(403, [detail |-> "Not authenticated"], FALSE)

\* a request without a bearer token and without an API key
NoCredentials(c) ==
    /\ c.fn \in ProtectedEndpoints
    /\ c.authorization = NoneV
    /\ c.x_api_key = NoneV

\* C10: a request without credentials to /users/me, predict, predict/batch
\* or PUT model/threshold is rejected with 401 or 403 before the handler
\* body runs, and leaves OPTIMAL_THRESHOLD and MODEL unchanged.
C10_RejectedBeforeHandler ==
    [][NoCredentials(call') =>
        /\ call'.resp.status \in {401, 403}
        /\ ~call'.resp.ran
        /\ OPTIMAL_THRESHOLD' = OPTIMAL_THRESHOLD
        /\ MODEL' = MODEL]_vars

\* a well-formed threshold update without credentials is refused and the
\* threshold is not the requested one
C10_ThresholdRequestRefused ==
    /\ call.fn = "update_threshold"
    /\ NoCredentials(call)
    /\ call.args \in 0..10
    /\ call.resp.status = 403
    /\ ~call.resp.ran
    /\ OPTIMAL_THRESHOLD # call.args

\* the credential store holds the user and the password's hash is the
\* stored one
CredentialsMatch(username, password) ==
    /\ username \in DOMAIN InitialUsers
    /\ InitialUsers[username].hashed_password = sha256_hexdigest(password)

LoginFailure == Response(401, [detail |-> "Incorrect username or password"], TRUE)

\* C11: login issues a token only when the username exists in the
\* credential store and the password hash matches; a wrong password for an
\* existing user and any password for a user that does not exist produce
\* the identical response 401 "Incorrect username or password".
C11_LoginUniformFailure ==
    call.fn = "login" =>
        /\ call.resp.status = 200
              <=> CredentialsMatch(call.args.username, call.args.password)
        /\ call.resp.status = 200 =>
              /\ token = Some(call.resp.body.access_token)
              /\ decode_access_token(token.v) =
                    Ret([username |-> call.args.username, scopes |-> <<>>])
        /\ call.resp.status # 200 => call.resp = LoginFailure

\* an existing user with another user's password is answered what an
\* unknown user is answered
C11_WrongPasswordRefused ==
    /\ call.fn = "login"
    /\ call.args.username = NameAdmin
    /\ call.args.password = PwTestuser
    /\ call.resp = LoginFailure
    /\ login(<<110, 111, 98, 111, 100, 121>>, PwTestuser) = call.resp

\* a request to PUT model/threshold with a bearer token that validates
AuthenticatedUpdate(c) ==
    /\ c.fn = "update_threshold"
    /\ ValidBearer(c.kind, c.authorization, c.at)

\* C12: after an authenticated update_threshold(v) with 0 <= v <= 1 the
\* threshold is v and the response reports the previous value as
\* old_threshold and v as new_threshold; a value outside [0, 1] is rejected
\* with 422 and leaves the threshold unchanged; 0 <= OPTIMAL_THRESHOLD <= 1
\* in every reachable state.
C12_ThresholdInRange ==
    /\ [](OPTIMAL_THRESHOLD \in 0..10)
    /\ [][AuthenticatedUpdate(call') =>
            IF call'.args \in 0..10
            THEN /\ OPTIMAL_THRESHOLD' = call'.args
                 /\ call'.resp.status = 200
                 /\ call'.resp.body.old_threshold = OPTIMAL_THRESHOLD
                 /\ call'.resp.body.new_threshold = call'.args
            ELSE /\ call'.resp.status = 422
                 /\ OPTIMAL_THRESHOLD' = OPTIMAL_THRESHOLD]_vars

\* the threshold set to 1 after it had been set to 0: both ends of the
\* range are accepted and the previous value is reported
C12_SetToOneAfterZero ==
    /\ AuthenticatedUpdate(call)
    /\ call.args = 10
    /\ call.resp.status = 200
    /\ call.resp.body.old_threshold = 0
    /\ call.resp.body.new_threshold = 10
    /\ OPTIMAL_THRESHOLD = 10

\* ------------------------------------------------ batch requests on their own
\* n valid transactions, the trained model's scores 0.4 and 0.9 alternating
Alternating(n) ==
    [i \in 1..n |-> [Amount |-> 10, score |-> IF i % 2 = 1 THEN 4 ELSE 9]]

\* the batches of up to MaxBatch transactions, one of the largest size
\* allowed and one of one transaction more
Batches ==
    SeqsUpTo(Transactions, MaxBatch)
        \cup {Alternating(BATCH_MAX_LENGTH), Alternating(BATCH_MAX_LENGTH + 1)}

BatchInit ==
    /\ InitCommon
    /\ environ = [ENABLE_API_KEY_AUTH |-> NoneV, API_KEY |-> NoneV]
    /\ MODEL \in {load_model(found) : found \in BOOLEAN}

BatchNext ==
    \/ Return
    \/ \E pw \in Passwords : Login(NameAdmin, pw)
    \/ \E a \in Presented, v \in ThresholdInputs : UpdateThreshold(a, NoneV, v)
    \/ \E a \in Presented, xs \in Batches : PredictBatch(a, NoneV, xs)

SpecBatch == BatchInit /\ [][BatchNext]_vars

\* a request to predict/batch with a bearer token that validates
AuthenticatedBatch ==
    /\ call.fn = "predict_batch"
    /\ ValidBearer(call.kind, call.authorization, call.at)

AllValid(transactions) ==
    \A i \in 1..Len(transactions) : ValidTransaction(transactions[i])

\* the score the loaded model gives a transaction
ScoreOf(transaction) == IF MODEL = Some("dummy") THEN 9 ELSE transaction.score

\* the response to n transactions: n predictions in input order and the
\* counts over them
CountsOver(transactions, body) ==
    /\ Len(body.predictions) = Len(transactions)
    /\ \A i \in 1..Len(transactions) :
          /\ body.predictions[i].fraud_probability = ScoreOf(transactions[i])
          /\ body.predictions[i].is_fraud
                <=> ScoreOf(transactions[i]) >= OPTIMAL_THRESHOLD
    /\ body.total_transactions = Len(transactions)
    /\ body.fraud_count =
          Cardinality({i \in 1..Len(transactions) : body.predictions[i].is_fraud})
    /\ IF Len(transactions) = 0 THEN body.fraud_rate.num = 0
       ELSE body.fraud_rate.num * Len(transactions)
                = body.fraud_count * body.fraud_rate.den

\* C13: for a request of n <= 1000 transactions the response holds exactly
\* n predictions in input order, total_transactions = n, fraud_count = the
\* number of predictions with is_fraud, and fraud_rate = fraud_count / n
\* (0 when n = 0); a request of more than 1000 transactions is rejected
\* with 422 and produces no prediction.
C13_BatchCounts ==
    AuthenticatedBatch =>
        IF Len(call.args) > BATCH_MAX_LENGTH
        THEN call.resp = ValidationErrorResponse
        ELSE AllValid(call.args) =>
                /\ call.resp.status = 200
                /\ CountsOver(call.args, call.resp.body)

\* two transactions scored 0.4 and 0.9 at threshold 0.5: one fraud of two
C13_OneFraudOfTwo ==
    /\ AuthenticatedBatch
    /\ Len(call.args) = 2
    /\ call.resp.status = 200
    /\ call.resp.body.predictions[1].is_fraud = FALSE
    /\ call.resp.body.predictions[2].is_fraud = TRUE
    /\ call.resp.body.fraud_count = 1
    /\ call.resp.body.fraud_rate = [num |-> 1, den |-> 2]

\* ================================================================ drift
\* src/monitoring/drift_detection.py. A float is a number of thousandths or
\* NaN; a comparison with NaN is False.
Num(v) == [nan |-> FALSE, v |-> v]
NaN == [nan |-> TRUE]

Less(a, b) == ~a.nan /\ ~b.nan /\ a.v < b.v
Greater(a, b) == Less(b, a)

\* np.log of the ratio num/den, in thousandths: ln 2 times the power of two
\* below the ratio plus the atanh series of the rest, at a scale of 10^-4
LnScale == 10000
Ln2 == 6931

RECURSIVE Log2Floor(_, _)
Log2Floor(num, den) == IF 2 * den > num THEN 0 ELSE 1 + Log2Floor(num, 2 * den)

RECURSIVE Pow2(_)
Pow2(k) == IF k = 0 THEN 1 ELSE 2 * Pow2(k - 1)

MulZ(a, b) == (a * b) \div LnScale

Series(z, z2) ==
    z + MulZ(z, z2) \div 3 + MulZ(MulZ(z, z2), z2) \div 5
      + MulZ(MulZ(MulZ(z, z2), z2), z2) \div 7

SeriesOf(z) == 2 * Series(z, MulZ(z, z))

\* ln(num / d) for d <= num < 2 d
LnMantissa(num, d) == SeriesOf(((num - d) * LnScale) \div (num + d))

LnShifted(num, den, k) == (k * Ln2 + LnMantissa(num, den * Pow2(k)) + 5) \div 10

LnAtLeastOne(num, den) == LnShifted(num, den, Log2Floor(num, den))

np_log(num, den) ==
    IF num >= den THEN LnAtLeastOne(num, den) ELSE 0 - LnAtLeastOne(den, num)

\* "bins: int = 10"
bins == 10

np_sort(a) == SortSeq(a, LAMBDA x, y : x < y)

\* a histogram edge: a number of 1/bins of the unit of the values, or an
\* infinity
Finite(v) == [inf |-> 0, v |-> v]
NegInf == [inf |-> -1, v |-> 0]
PosInf == [inf |-> 1, v |-> 0]

\* np.percentile(a, 100 k / bins) of the sorted non-empty a, by linear
\* interpolation between the two neighbours of the index k (n - 1) / bins
Interpolate(a, lo, frac) ==
    bins * a[lo] + frac * (a[IF lo < Len(a) THEN lo + 1 ELSE lo] - a[lo])

np_percentile(a, k) ==
    Interpolate(a, (k * (Len(a) - 1)) \div bins + 1, (k * (Len(a) - 1)) % bins)

\* breakpoints whose outer two stay the smallest and the largest reference
\* value
BreakpointsOfRange(sorted) ==
    [i \in 1..(bins + 1) |-> Finite(np_percentile(sorted, i - 1))]

\* "breakpoints[0] = -np.inf; breakpoints[-1] = np.inf"
Breakpoints(sorted) ==
    [i \in 1..(bins + 1) |->
        IF i = 1 THEN NegInf
        ELSE IF i = bins + 1 THEN PosInf
        ELSE Finite(np_percentile(sorted, i - 1))]

\* a.searchsorted(edge, 'left') and a.searchsorted(edge, 'right')
searchsorted_left(a, edge) ==
    Cardinality({j \in 1..Len(a) :
        edge.inf = 1 \/ (edge.inf = 0 /\ bins * a[j] < edge.v)})

searchsorted_right(a, edge) ==
    Cardinality({j \in 1..Len(a) :
        edge.inf = 1 \/ (edge.inf = 0 /\ bins * a[j] <= edge.v)})

\* the cumulative counts of np.histogram: left of every edge but the last
CumCount(a, edges, i) ==
    IF i = Len(edges) THEN searchsorted_right(a, edges[i])
    ELSE searchsorted_left(a, edges[i])

np_histogram(a, edges) ==
    [i \in 1..(Len(edges) - 1) |-> CumCount(a, edges, i + 1) - CumCount(a, edges, i)]

\* "counts / len(...)", then "np.where(percents == 0, 0.0001, percents)"
Percent(count, total) ==
    IF count = 0 THEN [num |-> 1, den |-> 10000]
    ELSE [num |-> count, den |-> total]

\* a term whose logarithm is that of the inverse ratio
TermReversed(cur, ref) ==
    ((cur.num * ref.den - ref.num * cur.den)
        * np_log(ref.num * cur.den, cur.num * ref.den)) \div (cur.den * ref.den)

\* "(cur_percents - ref_percents) * np.log(cur_percents / ref_percents)"
PsiTerm(cur, ref) ==
    ((cur.num * ref.den - ref.num * cur.den)
        * np_log(cur.num * ref.den, ref.num * cur.den)) \div (cur.den * ref.den)

RECURSIVE np_sum(_, _)
np_sum(terms, i) == IF i = 0 THEN 0 ELSE terms[i] + np_sum(terms, i - 1)

PsiOfCounts(ref_counts, cur_counts, ref_len, cur_len) ==
    np_sum([i \in 1..Len(ref_counts) |->
                PsiTerm(Percent(cur_counts[i], cur_len),
                        Percent(ref_counts[i], ref_len))],
           Len(ref_counts))

PsiOverEdges(reference, current, breakpoints) ==
    PsiOfCounts(np_histogram(reference, breakpoints),
                np_histogram(current, breakpoints),
                Len(reference), Len(current))

\* np.percentile raises on an empty reference; the counts of an empty
\* current sample divided by its length 0 are NaN
calculate_psi(reference, current) ==
    IF reference = <<>> THEN Raise(Exc("IndexError"))
    ELSE IF current = <<>> THEN Ret(NaN)
    ELSE Ret(Num(PsiOverEdges(reference, current, Breakpoints(np_sort(reference)))))

\* the largest distance of the two empirical distribution functions, as a
\* number of 1 / (len(reference) * len(current))
EcdfGap(reference, current, x) ==
    Len(current) * Cardinality({i \in 1..Len(reference) : reference[i] <= x})
        - Len(reference) * Cardinality({j \in 1..Len(current) : current[j] <= x})

Abs(x) == IF x < 0 THEN 0 - x ELSE x

Maximum(S) == CHOOSE x \in S : \A y \in S : y <= x

Pooled(reference, current) ==
    {reference[i] : i \in 1..Len(reference)} \cup {current[j] : j \in 1..Len(current)}

KsGap(reference, current) ==
    Maximum({Abs(EcdfGap(reference, current, x)) : x \in Pooled(reference, current)})

\* the orderings of i reference and j current values whose gap stays below
\* h throughout: the exact distribution of the statistic
RECURSIVE InsidePaths(_, _, _, _, _)
InsidePaths(i, j, m, n, h) ==
    IF Abs(i * n - j * m) >= h THEN 0
    ELSE IF i = 0 /\ j = 0 THEN 1
    ELSE (IF i > 0 THEN InsidePaths(i - 1, j, m, n, h) ELSE 0)
       + (IF j > 0 THEN InsidePaths(i, j - 1, m, n, h) ELSE 0)

ExactPValue(m, n, h) ==
    ((InsidePaths(m, n, m, n, m * n + 1) - InsidePaths(m, n, m, n, h)) * 1000)
        \div InsidePaths(m, n, m, n, m * n + 1)

KsOfGap(m, n, h) == <<Num((h * 1000) \div (m * n)), Num(ExactPValue(m, n, h))>>

\* scipy.stats.ks_2samp. On an empty sample the installed scipy either
\* raises ValueError or returns NaN for both numbers, by its version.
StatsBuilds == {"raises_on_empty", "nan_on_empty"}

ks_2samp(stats, reference, current) ==
    IF reference = <<>> \/ current = <<>>
    THEN IF stats = "raises_on_empty" THEN Raise(Exc("ValueError"))
         ELSE Ret(<<NaN, NaN>>)
    ELSE Ret(KsOfGap(Len(reference), Len(current), KsGap(reference, current)))

calculate_ks_test(stats, reference, current) == ks_2samp(stats, reference, current)

\* FraudDriftDetector(threshold_psi, threshold_ks)
FraudDriftDetector(threshold_psi, threshold_ks) ==
    [threshold_psi |-> Num(threshold_psi), threshold_ks |-> Num(threshold_ks)]

\* "threshold_psi: float = 0.2, threshold_ks: float = 0.05"
DefaultDetector == FraudDriftDetector(200, 50)

\* a classification whose bands include their upper ends
SeverityInclusive(psi) ==
    IF ~Greater(psi, Num(100)) THEN "none"
    ELSE IF ~Greater(psi, Num(200)) THEN "moderate"
    ELSE "significant"

_classify_drift_severity(psi) ==
    IF Less(psi, Num(100)) THEN "none"
    ELSE IF Less(psi, Num(200)) THEN "moderate"
    ELSE "significant"

\* a column is a sequence of cells, NoneV for a null; ".dropna().values"
dropna_values(column) ==
    [i \in 1..Len(SelectSeq(column, LAMBDA c : c.some)) |->
        SelectSeq(column, LAMBDA c : c.some)[i].v]

\* a flag that needs both tests to agree
BothTests(self, psi, p_value) ==
    Greater(psi, self.threshold_psi) /\ Less(p_value, self.threshold_ks)

\* "psi > self.threshold_psi or p_value < self.threshold_ks"
DriftDetected(self, psi, p_value) ==
    Greater(psi, self.threshold_psi) \/ Less(p_value, self.threshold_ks)

FindingOf(self, psi, ks) ==
    [psi |-> psi,
     ks_statistic |-> ks[1],
     ks_p_value |-> ks[2],
     drift_detected |-> DriftDetected(self, psi, ks[2]),
     drift_severity |-> _classify_drift_severity(psi)]

\* the body of the loop for one feature found on both sides: its finding,
\* or the exception of calculate_psi or of calculate_ks_test
FindingOrRaise(self, psi, ks) ==
    IF psi.raised THEN psi
    ELSE IF ks.raised THEN ks
    ELSE Ret(FindingOf(self, psi.value, ks.value))

FeatureFinding(self, stats, ref_values, cur_values) ==
    FindingOrRaise(self, calculate_psi(ref_values, cur_values),
                   calculate_ks_test(stats, ref_values, cur_values))

\* "for feature in features": the report after the features from i on
RECURSIVE DriftLoop(_, _, _, _, _, _, _)
StoreOrRaise(self, stats, reference_data, current_data, features, i, drift_report, found) ==
    IF found.raised THEN found
    ELSE DriftLoop(self, stats, reference_data, current_data, features, i + 1,
                   DictUpdate(drift_report, features[i], found.value))

DriftLoop(self, stats, reference_data, current_data, features, i, drift_report) ==
    IF i > Len(features) THEN Ret(drift_report)
    ELSE IF features[i] \notin DOMAIN reference_data
            \/ features[i] \notin DOMAIN current_data
    THEN DriftLoop(self, stats, reference_data, current_data, features, i + 1,
                   drift_report)
    ELSE StoreOrRaise(self, stats, reference_data, current_data, features, i,
                      drift_report,
                      FeatureFinding(self, stats,
                                     dropna_values(reference_data[features[i]]),
                                     dropna_values(current_data[features[i]])))

detect_feature_drift(self, stats, reference_data, current_data, features) ==
    DriftLoop(self, stats, reference_data, current_data, features, 1, <<>>)

\* ---------------------------------------------------------- target drift
\* an exact fraction, where the thousandths of Num would round
Rat(num, den) == [nan |-> FALSE, num |-> num, den |-> den]
PosInfinity == [nan |-> FALSE, inf |-> TRUE]

\* a rate that counts a score of exactly 0.5 as a fraud
RateFromHalf(predictions) ==
    IF predictions = <<>> THEN NaN
    ELSE Rat(Cardinality({i \in 1..Len(predictions) : predictions[i] >= 5}),
             Len(predictions))

\* "(predictions > 0.5).mean()", the scores in tenths; NaN for no score
FraudRate(predictions) ==
    IF predictions = <<>> THEN NaN
    ELSE Rat(Cardinality({i \in 1..Len(predictions) : predictions[i] > 5}),
             Len(predictions))

\* "abs(cur - ref) / ref if ref > 0 else 0"
RateChange(ref, cur) ==
    IF ref.nan \/ ref.num <= 0 THEN Rat(0, 1)
    ELSE IF cur.nan THEN NaN
    ELSE Rat(Abs(cur.num * ref.den - ref.num * cur.den), cur.den * ref.num)

\* "rate_change > 0.3"
OverThreeTenths(rate_change) ==
    ~rate_change.nan /\ 10 * rate_change.num > 3 * rate_change.den

\* "(obs - exp) ** 2 / exp" for one category: a division by zero gives inf,
\* or NaN when the numerator is zero too
ChiTerm(obs, exp) ==
    IF exp.num = 0
    THEN IF obs.num = 0 THEN NaN ELSE PosInfinity
    ELSE Rat((obs.num * exp.den - exp.num * obs.den) * (obs.num * exp.den - exp.num * obs.den),
             obs.den * obs.den * exp.den * exp.num)

FloatSum(x, y) ==
    IF x = NaN \/ y = NaN THEN NaN
    ELSE IF x = PosInfinity \/ y = PosInfinity THEN PosInfinity
    ELSE Rat(x.num * y.den + y.num * x.den, x.den * y.den)

Complement(rate) == Rat(rate.den - rate.num, rate.den)

\* stats.chisquare([cur, 1 - cur], [ref, 1 - ref]): the statistic, and the
\* p-value as the chi-square survival function of it, left unevaluated
chisquare(cur, ref) ==
    IF cur.nan \/ ref.nan THEN <<NaN, NaN>>
    ELSE <<FloatSum(ChiTerm(cur, ref), ChiTerm(Complement(cur), Complement(ref))),
           [chi2_sf |-> FloatSum(ChiTerm(cur, ref),
                                 ChiTerm(Complement(cur), Complement(ref)))]>>

TargetFinding(self, ref_fraud_rate, cur_fraud_rate, rate_change, psi, chi) ==
    [reference_fraud_rate |-> ref_fraud_rate,
     current_fraud_rate |-> cur_fraud_rate,
     fraud_rate_change |-> rate_change,
     psi |-> psi,
     chi2_statistic |-> chi[1],
     chi2_p_value |-> chi[2],
     drift_detected |->
         Greater(psi, self.threshold_psi) \/ OverThreeTenths(rate_change)]

TargetOfRates(self, ref_fraud_rate, cur_fraud_rate, psi) ==
    IF psi.raised THEN psi
    ELSE Ret(TargetFinding(self, ref_fraud_rate, cur_fraud_rate,
                           RateChange(ref_fraud_rate, cur_fraud_rate),
                           psi.value,
                           chisquare(cur_fraud_rate, ref_fraud_rate)))

detect_target_drift(self, reference_predictions, current_predictions) ==
    TargetOfRates(self, FraudRate(reference_predictions),
                  FraudRate(current_predictions),
                  calculate_psi(reference_predictions, current_predictions))

\* -------------------------------------------------------------- summary
\* f"{psi:.4f}" of a PSI of zero or more thousandths
Format4f(psi) ==
    IF psi.nan THEN <<110, 97, 110>>
    ELSE NatToStr(psi.v \div 1000)
            \o <<DOT, 48 + ((psi.v % 1000) \div 100), 48 + ((psi.v % 100) \div 10),
                  48 + (psi.v % 10), 48>>

\* "[f for f, metrics in drift_report.items() if metrics['drift_detected']]"
DriftFeatures(drift_report) ==
    SelectSeq(drift_report, LAMBDA item : item.v.drift_detected)

\* "drift_features[:5]"
FirstFive(drift_features) ==
    SubSeq(drift_features, 1, IF Len(drift_features) < 5 THEN Len(drift_features) ELSE 5)

\* the lines of the summary, each the text of its f-string and what fills it
CriticalLine(item) ==
    [text |-> "    - {feature}: PSI = {psi:.4f}", feature |-> item.k,
     psi |-> Format4f(item.v.psi)]

CriticalLines(listed) ==
    IF listed = <<>> THEN <<>>
    ELSE <<[text |-> ""], [text |-> "  Critical features:"]>>
            \o [i \in 1..Len(listed) |-> CriticalLine(listed[i])]

SummaryOf(total_features, drift_features) ==
    <<[text |-> "Drift Detection Summary:"],
      [text |-> "  Total features monitored: {total_features}",
       value |-> NatToStr(total_features)],
      [text |-> "  Features with drift: {len(drift_features)}",
       value |-> NatToStr(Len(drift_features))]>>
        \o CriticalLines(FirstFive(drift_features))

generate_drift_summary(drift_report) ==
    SummaryOf(Len(drift_report), DriftFeatures(drift_report))

\* ------------------------------------------------------ monitoring inputs
\* the most features of a report handed to the summary
MaxReport == 6

\* feature names "V1", "V2", ...
FeatureV(n) == <<86, 48 + n>>

\* findings of the default detector: PSI 0.05 and no drift, PSI 0.25, PSI 0.3
\* with a KS p-value of 0.028
SampleFindings ==
    {FindingOf(DefaultDetector, Num(50), <<Num(0), Num(1000)>>),
     FindingOf(DefaultDetector, Num(250), <<Num(500), Num(771)>>),
     FindingOf(DefaultDetector, Num(300), <<Num(1000), Num(28)>>)}

\* the reports of n features V1 .. Vn in this order
Reports(n) ==
    {[i \in 1..n |-> Item(FeatureV(i), findings[i])] :
        findings \in [1..n -> SampleFindings]}

\* the longest array of scores
MaxScores == 2

\* scores 0.5, 0.6 and 0.7
ScoreValues == {5, 6, 7}

\* the arrays of up to MaxScores scores, and one of three scores whose rate
\* 2/3 lies a quarter above the rate 1/2
ScoreArrays == SeqsUpTo(ScoreValues, MaxScores) \cup {<<5, 6, 6>>}

\* the longest list of requested features
MaxFeatures == 2

\* feature names "V1", "V2" and "Amount"
V1 == <<86, 49>>
V2 == <<86, 50>>
Amount == <<65, 109, 111, 117, 110, 116>>
FeatureNames == {V1, V2, Amount}

\* columns of four rows
Cells(values) == [i \in 1..Len(values) |-> IF values[i] = 0 THEN NoneV ELSE Some(values[i])]
Low == Cells(<<1, 1, 1, 1>>)
High == Cells(<<10, 10, 10, 10>>)
Half == Cells(<<1, 1, 10, 10>>)
Near == Cells(<<1, 1, 2, 2>>)
Partial == Cells(<<1, 2, 10, 0>>)
AllNull == Cells(<<0, 0, 0, 0>>)

\* data frames: a column for some of the feature names
Frames ==
    {(V1 :> Low) @@ (V2 :> Half) @@ (Amount :> Near),
     (V1 :> High) @@ (V2 :> Low) @@ (Amount :> High),
     (V1 :> Low) @@ (V2 :> AllNull),
     (V2 :> Partial) @@ (Amount :> Half),
     (V1 :> AllNull) @@ (V2 :> Half) @@ (Amount :> Low)}

\* the default detector and one whose thresholds 0 and 1 are the PSI and
\* the p-value of two equal samples
Detectors == {DefaultDetector, FraudDriftDetector(0, 1000)}

\* PSI values around the two severity bounds, a negative one and NaN
PsiInputs == {Num(v) : v \in {-1, 0, 99, 100, 101, 199, 200, 201, 5000}} \cup {NaN}

ClassifySeverity(psi) ==
    /\ call = NoCall
    /\ call' = [fn |-> "_classify_drift_severity", psi |-> psi,
                out |-> _classify_drift_severity(psi)]
    /\ UNCHANGED <<now, SECRET_KEY, environ, fake_users_db, MODEL,
                   OPTIMAL_THRESHOLD, token, issue>>

DetectFeatureDrift(self, stats, reference_data, current_data, features) ==
    /\ call = NoCall
    /\ call' = [fn |-> "detect_feature_drift", self |-> self, stats |-> stats,
                reference_data |-> reference_data,
                current_data |-> current_data, features |-> features,
                out |-> detect_feature_drift(self, stats, reference_data,
                                             current_data, features)]
    /\ UNCHANGED <<now, SECRET_KEY, environ, fake_users_db, MODEL,
                   OPTIMAL_THRESHOLD, token, issue>>

DetectTargetDrift(self, reference_predictions, current_predictions) ==
    /\ call = NoCall
    /\ call' = [fn |-> "detect_target_drift", self |-> self,
                reference_predictions |-> reference_predictions,
                current_predictions |-> current_predictions,
                out |-> detect_target_drift(self, reference_predictions,
                                            current_predictions)]
    /\ UNCHANGED <<now, SECRET_KEY, environ, fake_users_db, MODEL,
                   OPTIMAL_THRESHOLD, token, issue>>

GenerateDriftSummary(drift_report) ==
    /\ call = NoCall
    /\ call' = [fn |-> "generate_drift_summary", drift_report |-> drift_report,
                out |-> generate_drift_summary(drift_report)]
    /\ UNCHANGED <<now, SECRET_KEY, environ, fake_users_db, MODEL,
                   OPTIMAL_THRESHOLD, token, issue>>

DriftInit ==
    /\ InitCommon
    /\ environ = [ENABLE_API_KEY_AUTH |-> NoneV, API_KEY |-> NoneV]
    /\ MODEL = load_model(TRUE)

DriftNext ==
    \/ Return
    \/ \E psi \in PsiInputs : ClassifySeverity(psi)
    \/ \E self \in Detectors, stats \in StatsBuilds,
          reference_data \in Frames, current_data \in Frames,
          features \in SeqsUpTo(FeatureNames, MaxFeatures) :
          DetectFeatureDrift(self, stats, reference_data, current_data, features)
    \/ \E self \in Detectors,
          reference_predictions \in ScoreArrays,
          current_predictions \in ScoreArrays :
          DetectTargetDrift(self, reference_predictions, current_predictions)
    \/ \E n \in 0..MaxReport : \E drift_report \in Reports(n) :
          GenerateDriftSummary(drift_report)

SpecDrift == DriftInit /\ [][DriftNext]_vars

\* the findings of a returned report
Returned(fn) == call.fn = fn /\ ~call.out.raised
Findings == {call.out.value[i].v : i \in 1..Len(call.out.value)}

\* the severity bands of a PSI value, in thousandths
SeverityBand(v) ==
    IF v < 100 THEN "none" ELSE IF v < 200 THEN "moderate" ELSE "significant"

SeverityRank(label) ==
    CASE label = "none" -> 0 [] label = "moderate" -> 1 [] label = "significant" -> 2

\* C14: severity is a total, monotonic step function of PSI alone: "none"
\* below 0.1, "moderate" from 0.1 to below 0.2, "significant" from 0.2 on,
\* the bounds 0.1 and 0.2 themselves giving "moderate" and "significant";
\* the KS statistic and p-value of a finding never influence its severity.
C14_SeverityOfPsiAlone ==
    /\ call.fn = "_classify_drift_severity" =>
          /\ call.out \in {"none", "moderate", "significant"}
          /\ ~call.psi.nan =>
                /\ call.out = SeverityBand(call.psi.v)
                /\ \A q \in PsiInputs :
                      ~q.nan /\ q.v <= call.psi.v =>
                          SeverityRank(_classify_drift_severity(q))
                              <= SeverityRank(call.out)
    /\ Returned("detect_feature_drift") =>
          \A f \in Findings, g \in Findings :
              /\ ~f.psi.nan => f.drift_severity = SeverityBand(f.psi.v)
              /\ f.psi = g.psi => f.drift_severity = g.drift_severity

\* the bound 0.1 classified "moderate"; and a report with two findings of
\* one PSI and one severity whose KS p-values lie on the two sides of 0.05
C14_BoundaryModerate ==
    /\ call.fn = "_classify_drift_severity"
    /\ call.psi = Num(100)
    /\ call.out = "moderate"
    /\ _classify_drift_severity(Num(200)) = "significant"

C14_SamePsiOtherKs ==
    /\ Returned("detect_feature_drift")
    /\ \E f \in Findings, g \in Findings :
          /\ f.psi = g.psi
          /\ f.ks_p_value # g.ks_p_value
          /\ f.drift_severity = g.drift_severity

\* a float above, and a float below, a threshold: never so for NaN
Exceeds(x, threshold) == ~x.nan /\ x.v > threshold.v
FallsBelow(x, threshold) == ~x.nan /\ x.v < threshold.v

\* C15: in every finding produced by detect_feature_drift, drift_detected
\* is true exactly when psi > threshold_psi or ks_p_value < threshold_ks,
\* both comparisons strict and the thresholds 0.2 and 0.05 by default; each
\* test alone triggers and neither vetoes the other.
C15_IndependentTriggers ==
    /\ DefaultDetector = [threshold_psi |-> Num(200), threshold_ks |-> Num(50)]
    /\ Returned("detect_feature_drift") =>
          \A f \in Findings :
              /\ f.drift_detected <=>
                    \/ Exceeds(f.psi, call.self.threshold_psi)
                    \/ FallsBelow(f.ks_p_value, call.self.threshold_ks)
              /\ Exceeds(f.psi, call.self.threshold_psi) => f.drift_detected
              /\ FallsBelow(f.ks_p_value, call.self.threshold_ks) => f.drift_detected

\* under the default thresholds, one finding flagged by its PSI with a KS
\* p-value of 0.05 or more and one flagged by its p-value with PSI 0
C15_EachTestAlone ==
    /\ Returned("detect_feature_drift")
    /\ call.self = DefaultDetector
    /\ \E f \in Findings, g \in Findings :
          /\ f.drift_detected /\ f.psi.v > 200 /\ f.ks_p_value.v >= 50
          /\ g.drift_detected /\ g.psi.v = 0 /\ g.ks_p_value.v < 50

\* the requested features, those of them that are columns of both frames,
\* and those of the latter with no value left on a side
Requested == {call.features[i] : i \in 1..Len(call.features)}
OnBothSides == Requested \cap DOMAIN call.reference_data \cap DOMAIN call.current_data
EmptyOnASide ==
    {f \in OnBothSides :
        \/ dropna_values(call.reference_data[f]) = <<>>
        \/ dropna_values(call.current_data[f]) = <<>>}
KeySet == {call.out.value[i].k : i \in 1..Len(call.out.value)}

\* C16: detect_feature_drift skips, without raising, every requested
\* feature absent from the reference or the current data and returns a
\* finding for every requested feature present on both sides: the keys of
\* the report are the requested features that are columns of both inputs,
\* and an empty feature list yields an empty report.
C16_AbsentFeaturesSkipped ==
    call.fn = "detect_feature_drift" =>
        /\ ~call.out.raised
        /\ KeySet = OnBothSides
        /\ call.features = <<>> => call.out.value = <<>>

\* C16, over the runs in which every requested column of both frames keeps
\* a value after null-dropping: these return, with the keys of the claim
C16_SkippedWhenValuesRemain ==
    call.fn = "detect_feature_drift" =>
        /\ EmptyOnASide = {} => ~call.out.raised
        /\ ~call.out.raised => KeySet = OnBothSides
        /\ call.features = <<>> => call.out = Ret(<<>>)

\* a request for one feature of both frames and one the reference frame
\* lacks: a report of the former alone
C16_OneSkippedOneReported ==
    /\ Returned("detect_feature_drift")
    /\ call.features = <<V1, Amount>>
    /\ V1 \notin DOMAIN call.reference_data
    /\ Amount \in DOMAIN call.reference_data \cap DOMAIN call.current_data
    /\ KeySet = {Amount}

\* a request for V2 alone, a column of both frames and all null in the
\* reference: the run raises
C16_PresentFeatureRaises ==
    /\ call.fn = "detect_feature_drift"
    /\ call.features = <<V2>>
    /\ OnBothSides = {V2}
    /\ call.reference_data[V2] = AllNull
    /\ call.out.raised

\* the finding stored under a key of the report
FindingFor(f) == DictGet(call.out.value, f, NoneV)

\* a finding marked unavailable: no PSI, no drift flagged and no severity
\* of drift
Unavailable(finding) ==
    /\ finding.psi.nan
    /\ ~finding.drift_detected
    /\ finding.drift_severity \notin {"moderate", "significant"}

\* what the two tests give for the values of a feature
Computed(f) ==
    FeatureFinding(call.self, call.stats,
                   dropna_values(call.reference_data[f]),
                   dropna_values(call.current_data[f]))

\* C17: a feature whose value array is empty after null-dropping on either
\* side does not abort the run: detect_feature_drift does not raise,
\* reports the finding of that feature as unavailable, and computes and
\* returns the findings of all remaining features.
C17_EmptyArrayTolerated ==
    (call.fn = "detect_feature_drift" /\ EmptyOnASide # {}) =>
        /\ ~call.out.raised
        /\ KeySet = OnBothSides
        /\ \A f \in EmptyOnASide : Unavailable(FindingFor(f))
        /\ \A f \in OnBothSides \ EmptyOnASide : Ret(FindingFor(f)) = Computed(f)

\* V1 has values on both sides and V2 is all null in the reference: the
\* run for <<V1, V2>> raises and returns no finding for V1
C17_EmptyReferenceAborts ==
    /\ call.fn = "detect_feature_drift"
    /\ call.features = <<V1, V2>>
    /\ EmptyOnASide = {V2}
    /\ dropna_values(call.reference_data[V2]) = <<>>
    /\ call.out = Raise(Exc("IndexError"))

\* V1 is all null in the current frame only: by the installed scipy the
\* run raises ValueError, or returns a finding of NaN labelled significant
C17_EmptyCurrentRaises ==
    /\ call.fn = "detect_feature_drift"
    /\ call.features = <<V1>>
    /\ OnBothSides = {V1}
    /\ dropna_values(call.reference_data[V1]) # <<>>
    /\ dropna_values(call.current_data[V1]) = <<>>
    /\ call.out = Raise(Exc("ValueError"))

C17_EmptyCurrentSignificant ==
    /\ Returned("detect_feature_drift")
    /\ call.features = <<V1>>
    /\ OnBothSides = {V1}
    /\ dropna_values(call.current_data[V1]) = <<>>
    /\ FindingFor(V1).psi = NaN
    /\ FindingFor(V1).ks_p_value = NaN
    /\ FindingFor(V1).drift_severity = "significant"
    /\ ~FindingFor(V1).drift_detected

\* the order of two names as Python compares strings
NameLess(a, b) ==
    \/ Len(a) < Len(b) /\ SubSeq(b, 1, Len(a)) = a
    \/ \E i \in 1..Len(a) :
          /\ i <= Len(b)
          /\ SubSeq(a, 1, i - 1) = SubSeq(b, 1, i - 1)
          /\ a[i] < b[i]

\* the keys of the report in the order in which iterating it yields them
Keys == [i \in 1..Len(call.out.value) |-> call.out.value[i].k]

\* C18: the report returned by detect_feature_drift is ordered by feature
\* name and holds exactly one entry per monitored feature, for any order
\* and any repetition of the names in the requested list.
C18_OrderedByName ==
    Returned("detect_feature_drift") =>
        /\ \A i \in 1..Len(Keys), j \in 1..Len(Keys) :
              i < j => NameLess(Keys[i], Keys[j])
        /\ KeySet = OnBothSides

\* C18, its second half alone: one entry per monitored feature
C18_OneEntryPerFeature ==
    Returned("detect_feature_drift") =>
        /\ \A i \in 1..Len(Keys), j \in 1..Len(Keys) : i # j => Keys[i] # Keys[j]
        /\ KeySet = OnBothSides

\* the request <<V2, Amount>>: a report whose keys run V2, Amount
C18_RequestOrderKept ==
    /\ Returned("detect_feature_drift")
    /\ call.features = <<V2, Amount>>
    /\ Keys = <<V2, Amount>>
    /\ NameLess(Amount, V2)

\* the request <<V1, V1>>: one entry
C18_RepeatedNameOnce ==
    /\ Returned("detect_feature_drift")
    /\ call.features = <<V1, V1>>
    /\ Keys = <<V1>>

\* the scores of an array that are strictly greater than 0.5
Frauds(predictions) == {i \in 1..Len(predictions) : predictions[i] > 5}

\* a rate that is the fraction of the scores of an array above 0.5
IsRateOf(rate, predictions) ==
    ~rate.nan /\ rate.num * Len(predictions) = Cardinality(Frauds(predictions)) * rate.den

\* a change that is |cur - ref| / ref, and 0 when ref is 0
IsChangeOf(change, ref, cur) ==
    /\ ~change.nan
    /\ IF ref.num = 0 THEN change.num = 0
       ELSE change.num * ref.num * cur.den * ref.den
                = Abs(cur.num * ref.den - ref.num * cur.den) * ref.den * change.den

\* C19: detect_target_drift computes each fraud rate as the fraction of
\* scores strictly greater than 0.5, fraud_rate_change as
\* |current_rate - reference_rate| / reference_rate (0 when reference_rate
\* is 0), and drift_detected as psi > threshold_psi or fraud_rate_change >
\* 0.3; for identical reference and current score arrays it yields
\* drift_detected = False and fraud_rate_change = 0. Stated for arrays
\* that hold a score, of which alone a fraction is defined.
C19_TargetDrift ==
    (/\ call.fn = "detect_target_drift"
     /\ call.reference_predictions # <<>>
     /\ call.current_predictions # <<>>) =>
        /\ ~call.out.raised
        /\ IsRateOf(call.out.value.reference_fraud_rate, call.reference_predictions)
        /\ IsRateOf(call.out.value.current_fraud_rate, call.current_predictions)
        /\ IsChangeOf(call.out.value.fraud_rate_change,
                      call.out.value.reference_fraud_rate,
                      call.out.value.current_fraud_rate)
        /\ call.out.value.drift_detected <=>
              \/ Exceeds(call.out.value.psi, call.self.threshold_psi)
              \/ 10 * call.out.value.fraud_rate_change.num
                    > 3 * call.out.value.fraud_rate_change.den
        /\ call.reference_predictions = call.current_predictions =>
              /\ call.out.value.drift_detected = FALSE
              /\ call.out.value.fraud_rate_change.num = 0

\* reference <<0.6, 0.7>> against current <<0.5, 0.7>>: rates 1 and 1/2
\* (0.5 itself is no fraud), change 1/2, PSI 0, drift flagged by the change
C19_RateChangeAlone ==
    /\ Returned("detect_target_drift")
    /\ call.self = DefaultDetector
    /\ call.reference_predictions = <<6, 7>>
    /\ call.current_predictions = <<5, 7>>
    /\ call.out.value.reference_fraud_rate = Rat(2, 2)
    /\ call.out.value.current_fraud_rate = Rat(1, 2)
    /\ call.out.value.psi = Num(0)
    /\ call.out.value.drift_detected

\* identical arrays <<0.5, 0.7>>: no drift, no change
C19_IdenticalArrays ==
    /\ Returned("detect_target_drift")
    /\ call.reference_predictions = <<5, 7>>
    /\ call.current_predictions = <<5, 7>>
    /\ ~call.out.value.drift_detected
    /\ call.out.value.fraud_rate_change.num = 0

\* the report of a summary call: its drifted features and the PSI of each
Drifted ==
    {call.drift_report[i].k :
        i \in {j \in 1..Len(call.drift_report) : call.drift_report[j].v.drift_detected}}
PsiOf(f) == DictGet(call.drift_report, f, NoneV).psi.v

\* the features the summary lists, in the order of its lines
ListedLines ==
    SelectSeq(call.out, LAMBDA line : line.text = "    - {feature}: PSI = {psi:.4f}")
Listed == [i \in 1..Len(ListedLines) |-> ListedLines[i].feature]
ListedSet == {Listed[i] : i \in 1..Len(Listed)}

Min(a, b) == IF a < b THEN a ELSE b

\* the counts of the summary: the features of the report, those of them
\* with drift, and at most 5 of the latter listed, each once
SummaryCounts ==
    /\ call.out[2].value = NatToStr(Len(call.drift_report))
    /\ call.out[3].value = NatToStr(Cardinality(Drifted))
    /\ Len(Listed) = Min(5, Cardinality(Drifted))
    /\ Cardinality(ListedSet) = Len(Listed)
    /\ ListedSet \subseteq Drifted

\* C20: generate_drift_summary reports the total number of features in the
\* report and the number with drift_detected true, and lists at most 5
\* drifted features, which are the drifted features with the highest PSI,
\* in descending PSI order.
C20_TopFiveByPsi ==
    call.fn = "generate_drift_summary" =>
        /\ SummaryCounts
        /\ \A f \in ListedSet, g \in Drifted \ ListedSet : PsiOf(f) >= PsiOf(g)
        /\ \A i \in 1..Len(Listed), j \in 1..Len(Listed) :
              i < j => PsiOf(Listed[i]) >= PsiOf(Listed[j])

\* C20, without the ranking: the counts, and the listed features are the
\* first five drifted features in the order of the report
C20_FirstFiveInReportOrder ==
    call.fn = "generate_drift_summary" =>
        /\ SummaryCounts
        /\ \A i \in 1..Len(Listed) :
              /\ ListedLines[i].psi = Format4f(Num(PsiOf(Listed[i])))
              /\ Listed[i] = DriftFeatures(call.drift_report)[i].k

\* six drifted features, V1 to V5 of PSI 0.25 and V6 of PSI 0.3: the
\* summary lists V1 to V5 and leaves out V6
C20_HighestLeftOut ==
    /\ call.fn = "generate_drift_summary"
    /\ Drifted = {FeatureV(i) : i \in 1..6}
    /\ \A i \in 1..5 : PsiOf(FeatureV(i)) = 250
    /\ PsiOf(FeatureV(6)) = 300
    /\ Listed = [i \in 1..5 |-> FeatureV(i)]

\* two drifted features in rising PSI: listed in rising PSI
C20_RisingOrderListed ==
    /\ call.fn = "generate_drift_summary"
    /\ Len(call.drift_report) = 2
    /\ Listed = <<FeatureV(1), FeatureV(2)>>
    /\ PsiOf(FeatureV(1)) = 250
    /\ PsiOf(FeatureV(2)) = 300
    /\ ListedLines[2].psi = <<48, 46, 51, 48, 48, 48>>

\* ------------------------------------------------- calculate_psi on its own
\* the longest sample drawn freely
MaxSample == 2

SampleValues == {1, 5, 9}

\* the samples of up to MaxSample values, one with tied values, and the two
\* of ten values that are mostly 1 and mostly 10
MostlyOne == [i \in 1..10 |-> IF i = 10 THEN 10 ELSE 1]
MostlyTen == [i \in 1..10 |-> IF i = 10 THEN 1 ELSE 10]
PsiSamples ==
    SeqsUpTo(SampleValues, MaxSample) \cup {<<5, 5, 5, 9>>, MostlyOne, MostlyTen}

\* "ref_counts" and "cur_counts", once the breakpoints exist
CountsOverEdges(reference, current, breakpoints) ==
    [ref_counts |-> np_histogram(reference, breakpoints),
     cur_counts |-> np_histogram(current, breakpoints)]

HistogramCounts(reference, current) ==
    IF reference = <<>> THEN NoneV
    ELSE Some(CountsOverEdges(reference, current, Breakpoints(np_sort(reference))))

CalculatePsi(reference, current) ==
    /\ call = NoCall
    /\ call' = [fn |-> "calculate_psi", reference |-> reference,
                current |-> current,
                counts |-> HistogramCounts(reference, current),
                out |-> calculate_psi(reference, current)]
    /\ UNCHANGED <<now, SECRET_KEY, environ, fake_users_db, MODEL,
                   OPTIMAL_THRESHOLD, token, issue>>

PsiNext ==
    \/ Return
    \/ \E reference \in PsiSamples, current \in PsiSamples :
          CalculatePsi(reference, current)

SpecPsi == DriftInit /\ [][PsiNext]_vars

\* a PSI computed from two samples that hold a value
PsiOfSamples ==
    /\ call.fn = "calculate_psi"
    /\ call.reference # <<>>
    /\ call.current # <<>>

\* the term of bin i, from the counts of the call
TermOfBin(i) ==
    PsiTerm(Percent(call.counts.v.cur_counts[i], Len(call.current)),
            Percent(call.counts.v.ref_counts[i], Len(call.reference)))

\* C21: PSI is non-negative for every pair of non-empty reference and
\* current samples, and calculate_psi(x, x) = 0 for every non-empty x:
\* every per-bin term (cur - ref) * ln(cur / ref) is >= 0, and is 0 when
\* the binned fractions coincide.
C21_PsiNonNegative ==
    PsiOfSamples =>
        /\ ~call.out.raised
        /\ ~call.out.value.nan
        /\ call.out.value.v >= 0
        /\ \A i \in 1..bins :
              /\ TermOfBin(i) >= 0
              /\ call.counts.v.cur_counts[i] * Len(call.reference)
                    = call.counts.v.ref_counts[i] * Len(call.current)
                 => TermOfBin(i) = 0
        /\ call.reference = call.current => call.out.value.v = 0

\* the sample <<1, 5>> against itself: PSI 0; and against <<5, 5>>: a PSI
\* above 0 made of terms none of which is negative
C21_IdentityIsZero ==
    /\ PsiOfSamples
    /\ call.reference = <<1, 5>>
    /\ call.current = <<1, 5>>
    /\ call.out = Ret(Num(0))
    /\ calculate_psi(<<1, 5>>, <<5, 5>>).value.v > 0

\* a call of calculate_psi that got as far as the histograms
Binned == call.fn = "calculate_psi" /\ call.counts.some

Total(counts) == np_sum(counts, Len(counts))

\* the values of a sample outside the range of the reference
OutOfRange(sample, reference) ==
    {i \in 1..Len(sample) :
        \/ \A j \in 1..Len(reference) : sample[i] < reference[j]
        \/ \A j \in 1..Len(reference) : sample[i] > reference[j]}

\* C27: PSI binning loses no value: the outer breakpoints being -infinity
\* and +infinity, the bin counts of the reference sum to len(reference) and
\* those of the current sample to len(current) for all inputs, current
\* values outside the reference range and references with tied percentile
\* breakpoints included.
C27_NoValueLost ==
    /\ call.fn = "calculate_psi" => (call.counts.some <=> call.reference # <<>>)
    /\ Binned =>
          /\ Len(call.counts.v.ref_counts) = bins
          /\ Len(call.counts.v.cur_counts) = bins
          /\ \A i \in 1..bins :
                call.counts.v.ref_counts[i] >= 0 /\ call.counts.v.cur_counts[i] >= 0
          /\ Total(call.counts.v.ref_counts) = Len(call.reference)
          /\ Total(call.counts.v.cur_counts) = Len(call.current)

\* the reference <<5, 5>>, all of whose breakpoints are tied, against the
\* current <<1, 9>>, one value below and one above it: both counted, in
\* the first and the last bin
C27_OutsideRangeCounted ==
    /\ Binned
    /\ call.reference = <<5, 5>>
    /\ call.current = <<1, 9>>
    /\ OutOfRange(call.current, call.reference) = {1, 2}
    /\ call.counts.v.cur_counts[1] = 1
    /\ call.counts.v.cur_counts[bins] = 1
    /\ call.counts.v.ref_counts[bins] = 2

\* C30: the PSI trigger and the severity label agree for every configured
\* PSI threshold: for a detector constructed with any threshold_psi, every
\* finding with psi > threshold_psi has drift_severity "significant", and
\* every finding with drift_severity "none" has psi <= threshold_psi.
C30_TriggerAgreesWithSeverity ==
    Returned("detect_feature_drift") =>
        \A f \in Findings :
            ~f.psi.nan =>
                /\ f.psi.v > call.self.threshold_psi.v
                      => f.drift_severity = "significant"
                /\ f.drift_severity = "none"
                      => f.psi.v <= call.self.threshold_psi.v

\* C30, for the detector of the default thresholds alone
C30_AgreesAtDefault ==
    (Returned("detect_feature_drift") /\ call.self = DefaultDetector) =>
        \A f \in Findings :
            ~f.psi.nan =>
                /\ f.psi.v > 200 => f.drift_severity = "significant"
                /\ f.drift_severity = "none" => f.psi.v <= 200

\* a detector with threshold_psi 0: a finding of PSI 0.114 is over the
\* threshold, flagged, and labelled "moderate"
C30_FlaggedButModerate ==
    /\ Returned("detect_feature_drift")
    /\ call.self.threshold_psi = Num(0)
    /\ \E f \in Findings :
          /\ ~f.psi.nan
          /\ f.psi.v > 0
          /\ f.psi.v < 200
          /\ f.drift_detected
          /\ f.drift_severity = "moderate"

\* =============================================================== alerts
\* The values of AlertSeverity and AlertChannel
AlertSeverity == {"info", "warning", "error", "critical"}
AlertChannel == {"slack", "teams", "email", "webhook"}

\* Alert(...): __post_init__ stamps an alert that carries no timestamp
Alert(title, message, severity, metrics, metadata) ==
    [title |-> title, message |-> message, severity |-> severity,
     timestamp |-> now, metrics |-> metrics, metadata |-> metadata]

\* AlertManager(): the switches and the webhooks, read from the environment
EnabledBy(name) == Lowercase(getenv(name, StrFalse)) = StrTrue

AlertManager ==
    [slack_enabled |-> EnabledBy("SLACK_ENABLED"),
     teams_enabled |-> EnabledBy("TEAMS_ENABLED"),
     email_enabled |-> EnabledBy("EMAIL_ENABLED"),
     slack_webhook |-> environ["SLACK_WEBHOOK_URL"],
     teams_webhook |-> environ["TEAMS_WEBHOOK_URL"]]

\* "self.slack_enabled and self.slack_webhook": a webhook that is None or
\* the empty string is false
Configured(webhook) == webhook.some /\ webhook.v # <<>>

\* One delivery: the message handed to the transport of a channel.  The
\* transports named in `failing` raise (a refused connection, an HTTP error
\* status, an SMTP error); the handler of each channel catches the exception
\* and answers False.
Delivery(channel, target, alert) ==
    [channel |-> channel, target |-> target, title |-> alert.title,
     text |-> alert.message, severity |-> alert.severity]

Sent(out, io) == [out |-> out, io |-> io]

\* _send_slack with the "except Exception" handler removed
SendSlackUncaught(self, alert, failing) ==
    Sent(IF "slack" \in failing THEN Raise(Exc("RequestException")) ELSE Ret(TRUE),
         <<Delivery("slack", self.slack_webhook.v, alert)>>)

_send_slack(self, alert, failing) ==
    Sent(Ret("slack" \notin failing),
         <<Delivery("slack", self.slack_webhook.v, alert)>>)

_send_teams(self, alert, failing) ==
    Sent(Ret("teams" \notin failing),
         <<Delivery("teams", self.teams_webhook.v, alert)>>)

\* int(x) of a string of decimal digits; anything else raises ValueError
IsDecimal(s) == s # <<>> /\ \A i \in 1..Len(s) : s[i] \in 48..57

\* "all([smtp_username, smtp_password, from_email, to_email])"
EmailSettings ==
    {"SMTP_USERNAME", "SMTP_PASSWORD", "ALERT_EMAIL_FROM", "ALERT_EMAIL_TO"}
EmailComplete == \A name \in EmailSettings : Configured(environ[name])

_send_email(self, alert, failing) ==
    IF environ["SMTP_PORT"].some /\ ~IsDecimal(environ["SMTP_PORT"].v)
    THEN Sent(Ret(FALSE), <<>>)
    ELSE IF ~EmailComplete THEN Sent(Ret(FALSE), <<>>)
    ELSE Sent(Ret("email" \notin failing),
              <<Delivery("email", environ["ALERT_EMAIL_TO"].v, alert)>>)

\* send_alert, channel by channel: `results` and the deliveries made so far
Attempted(so_far, channel, sent) ==
    IF sent.out.raised THEN Sent(sent.out, so_far.io \o sent.io)
    ELSE Sent(Ret(DictUpdate(so_far.out.value, channel, sent.out.value)),
              so_far.io \o sent.io)

AfterSlack(self, alert, failing) ==
    IF self.slack_enabled /\ Configured(self.slack_webhook)
    THEN Attempted(Sent(Ret(<<>>), <<>>), "slack", _send_slack(self, alert, failing))
    ELSE Sent(Ret(<<>>), <<>>)

AfterTeams(self, alert, failing, so_far) ==
    IF so_far.out.raised THEN so_far
    ELSE IF self.teams_enabled /\ Configured(self.teams_webhook)
    THEN Attempted(so_far, "teams", _send_teams(self, alert, failing))
    ELSE so_far

AfterEmail(self, alert, failing, so_far) ==
    IF so_far.out.raised THEN so_far
    ELSE IF self.email_enabled
    THEN Attempted(so_far, "email", _send_email(self, alert, failing))
    ELSE so_far

Dispatch(self, alert, failing) ==
    AfterEmail(self, alert, failing,
               AfterTeams(self, alert, failing, AfterSlack(self, alert, failing)))

\* the alert built, the mapping returned and the deliveries made
Outcome(alert, sent) == [alert |-> alert, out |-> sent.out, io |-> sent.io]

send_alert(self, failing, title, message, severity, metrics, metadata) ==
    Outcome(Alert(title, message, severity, metrics, metadata),
            Dispatch(self, Alert(title, message, severity, metrics, metadata),
                     failing))

\* an f-string: its text and the values formatted into it
FString(text, args) == [text |-> text, args |-> args]

\* drift_score < 0.3 promotes to critical
SeverityUnderThreshold(drift_score, threshold) ==
    IF Less(drift_score, threshold) THEN "warning" ELSE "critical"

DriftSeverity(drift_score, threshold) ==
    IF Less(drift_score, Num(300)) THEN "warning" ELSE "critical"

\* scores and thresholds in thousandths
send_drift_alert(self, failing, feature_name, drift_score, threshold) ==
    send_alert(self, failing,
               FString("Data Drift Detected: {feature_name}", <<feature_name>>),
               FString("Drift score ({drift_score:.4f}) exceeds threshold ({threshold:.4f}). Consider retraining the model.",
                       <<Format4f(drift_score), Format4f(threshold)>>),
               DriftSeverity(drift_score, threshold),
               Some(<<Item("drift_score", drift_score),
                      Item("threshold", threshold),
                      Item("feature", feature_name)>>),
               Some(<<Item("alert_type", "data_drift"),
                      Item("model", "fraud-detection-model")>>))

\* an increase measured against the current rate
IncreaseOverCurrent(current_rate, expected_rate) ==
    IF current_rate.num > 0
    THEN Rat(100 * Abs(current_rate.num * expected_rate.den
                        - expected_rate.num * current_rate.den),
             expected_rate.den * current_rate.num)
    ELSE Rat(0, 1)

\* "abs(current_rate - expected_rate) / expected_rate * 100 if
\* expected_rate > 0 else 0", the rates and the quotient as fractions
Increase(current_rate, expected_rate) ==
    IF expected_rate.num > 0
    THEN Rat(100 * Abs(current_rate.num * expected_rate.den
                        - expected_rate.num * current_rate.den),
             current_rate.den * expected_rate.num)
    ELSE Rat(0, 1)

\* "increase < 50"
SpikeSeverity(increase) ==
    IF increase.num < 50 * increase.den THEN "warning" ELSE "critical"

SpikeAlert(self, failing, current_rate, expected_rate, increase) ==
    send_alert(self, failing,
               FString("Fraud Rate Spike Detected", <<>>),
               FString("Current fraud rate ({current_rate:.2%}) is {increase:.1f}% higher than expected ({expected_rate:.2%}). Investigate immediately.",
                       <<current_rate, increase, expected_rate>>),
               SpikeSeverity(increase),
               Some(<<Item("current_fraud_rate", current_rate),
                      Item("expected_fraud_rate", expected_rate),
                      Item("increase_pct", increase)>>),
               Some(<<Item("alert_type", "fraud_spike")>>))

send_fraud_spike_alert(self, failing, current_rate, expected_rate) ==
    SpikeAlert(self, failing, current_rate, expected_rate,
               Increase(current_rate, expected_rate))


\* ------------------------------------------------------ alerting inputs
TrueCapital == <<84, 114, 117, 101>>
HookUrl == <<104, 116, 116, 112, 115>>
Mailbox == <<111, 112, 115>>
BadPort == <<53, 56, 55, 120>>

\* the environment of the alerting process
AlertEnvs ==
    [ENABLE_API_KEY_AUTH : {NoneV}, API_KEY : {NoneV},
     SLACK_ENABLED : {NoneV, Some(StrTrue), Some(TrueCapital)},
     TEAMS_ENABLED : {Some(StrFalse), Some(StrTrue)},
     EMAIL_ENABLED : {NoneV, Some(StrTrue)},
     SLACK_WEBHOOK_URL : {NoneV, Some(<<>>), Some(HookUrl)},
     TEAMS_WEBHOOK_URL : {NoneV, Some(HookUrl)},
     SMTP_PORT : {NoneV, Some(BadPort)},
     SMTP_USERNAME : {Some(Mailbox)}, SMTP_PASSWORD : {Some(Mailbox)},
     ALERT_EMAIL_FROM : {Some(Mailbox)},
     ALERT_EMAIL_TO : {NoneV, Some(Mailbox)}]

Failures == SUBSET {"slack", "teams", "email"}

\* drift scores around 0.3, and one that is not a number
DriftScores == {Num(0), Num(250), Num(299), Num(300), Num(450), NaN}
AlertThresholds == {Num(200), Num(500)}

\* rates whose difference a double holds exactly
Rates == {Rat(0, 1), Rat(1, 100), Rat(2, 100), Rat(1, 64), Rat(3, 128), Rat(1, 2)}

SendAlert(self, failing, title, message, severity) ==
    /\ call = NoCall
    /\ \E r \in {send_alert(self, failing, title, message, severity, NoneV, NoneV)} :
          call' = [fn |-> "send_alert", self |-> self, failing |-> failing,
                   alert |-> r.alert, io |-> r.io, out |-> r.out]
    /\ UNCHANGED <<now, SECRET_KEY, environ, fake_users_db, MODEL,
                   OPTIMAL_THRESHOLD, token, issue>>

SendDriftAlert(self, failing, feature_name, drift_score, threshold) ==
    /\ call = NoCall
    /\ \E r \in {send_drift_alert(self, failing, feature_name, drift_score, threshold)} :
          call' = [fn |-> "send_drift_alert", self |-> self, failing |-> failing,
                   feature_name |-> feature_name, drift_score |-> drift_score,
                   threshold |-> threshold,
                   alert |-> r.alert, io |-> r.io, out |-> r.out]
    /\ UNCHANGED <<now, SECRET_KEY, environ, fake_users_db, MODEL,
                   OPTIMAL_THRESHOLD, token, issue>>

SendFraudSpikeAlert(self, failing, current_rate, expected_rate) ==
    /\ call = NoCall
    /\ \E r \in {send_fraud_spike_alert(self, failing, current_rate, expected_rate)} :
          call' = [fn |-> "send_fraud_spike_alert", self |-> self,
                   failing |-> failing, current_rate |-> current_rate,
                   expected_rate |-> expected_rate,
                   alert |-> r.alert, io |-> r.io, out |-> r.out]
    /\ UNCHANGED <<now, SECRET_KEY, environ, fake_users_db, MODEL,
                   OPTIMAL_THRESHOLD, token, issue>>

AlertInit ==
    /\ InitCommon
    /\ environ \in AlertEnvs
    /\ MODEL = load_model(TRUE)

AlertNext ==
    \/ Return
    \/ \E failing \in Failures, severity \in AlertSeverity :
          SendAlert(AlertManager, failing, <<84>>, <<77>>, severity)
    \/ \E failing \in {{}, {"slack"}}, feature_name \in {V1, Amount},
          drift_score \in DriftScores, threshold \in AlertThresholds :
          SendDriftAlert(AlertManager, failing, feature_name, drift_score, threshold)
    \/ \E failing \in {{}, {"email"}}, current_rate \in Rates, expected_rate \in Rates :
          SendFraudSpikeAlert(AlertManager, failing, current_rate, expected_rate)

SpecAlerts == AlertInit /\ [][AlertNext]_vars

\* ------------------------------------------------------ alerts: claims
AlertCalls == {"send_alert", "send_drift_alert", "send_fraud_spike_alert"}
Metric(name) == DictGet(call.alert.metrics.v, name, NoneV)
Deliveries(channel) == {i \in 1..Len(call.io) : call.io[i].channel = channel}

\* C22: send_drift_alert gives the alert the severity WARNING when the drift
\* score is below 0.3 and CRITICAL otherwise, 0.3 included, whatever the
\* threshold argument is, and the metrics of the alert hold the drift score,
\* the threshold and the feature name; every delivery carries that severity.
C22_DriftAlertSeverity ==
    call.fn = "send_drift_alert" =>
        /\ call.alert.severity =
              IF ~call.drift_score.nan /\ call.drift_score.v < 300
              THEN "warning" ELSE "critical"
        /\ call.alert.metrics.some
        /\ Metric("drift_score") = call.drift_score
        /\ Metric("threshold") = call.threshold
        /\ Metric("feature") = call.feature_name
        /\ \A i \in 1..Len(call.io) : call.io[i].severity = call.alert.severity

\* a score of exactly 0.3 under a threshold of 0.5 is delivered as CRITICAL,
\* and the same call with a score of 0.25 over a threshold of 0.2 as WARNING
C22_BoundaryIsCritical ==
    /\ call.fn = "send_drift_alert"
    /\ call.drift_score = Num(300)
    /\ call.threshold = Num(500)
    /\ call.alert.severity = "critical"
    /\ call.io # <<>>

C22_OverThresholdIsWarning ==
    /\ call.fn = "send_drift_alert"
    /\ call.drift_score = Num(250)
    /\ call.threshold = Num(200)
    /\ call.alert.severity = "warning"

\* C23: send_fraud_spike_alert reports increase_pct = |current - expected| /
\* expected * 100, and 0 when the expected rate is 0; the severity is WARNING
\* when increase_pct < 50 and CRITICAL otherwise; a current rate of 0.02
\* against an expected rate of 0.01 gives CRITICAL with increase_pct = 100.
C23_SpikeSeverity ==
    call.fn = "send_fraud_spike_alert" =>
        /\ call.alert.metrics.some
        /\ Metric("increase_pct").den > 0
        /\ IF call.expected_rate.num = 0
           THEN Metric("increase_pct").num = 0
           ELSE Metric("increase_pct").num
                    * call.expected_rate.num * call.current_rate.den
                = Metric("increase_pct").den * 100
                    * Abs(call.current_rate.num * call.expected_rate.den
                           - call.expected_rate.num * call.current_rate.den)
        /\ call.alert.severity =
              IF Metric("increase_pct").num < 50 * Metric("increase_pct").den
              THEN "warning" ELSE "critical"
        /\ (call.current_rate = Rat(2, 100) /\ call.expected_rate = Rat(1, 100)) =>
              /\ call.alert.severity = "critical"
              /\ Metric("increase_pct").num = 100 * Metric("increase_pct").den

C23_DoubledRateCritical ==
    /\ call.fn = "send_fraud_spike_alert"
    /\ call.current_rate = Rat(2, 100)
    /\ call.expected_rate = Rat(1, 100)
    /\ call.alert.severity = "critical"
    /\ Metric("increase_pct").num = 100 * Metric("increase_pct").den

\* an increase of exactly 50 percent is CRITICAL, and no expected rate at all
\* is an increase of 0
C23_HalfIsCritical ==
    /\ call.fn = "send_fraud_spike_alert"
    /\ call.current_rate = Rat(3, 128)
    /\ call.expected_rate = Rat(1, 64)
    /\ call.alert.severity = "critical"

C23_NoExpectedRate ==
    /\ call.fn = "send_fraud_spike_alert"
    /\ call.expected_rate = Rat(0, 1)
    /\ call.current_rate = Rat(1, 2)
    /\ call.alert.severity = "warning"

\* C24: whatever channels fail to deliver, send_alert does not raise; each
\* channel that is enabled and configured is attempted exactly once and has
\* exactly one entry in the mapping returned, False if its delivery failed
\* and True if it succeeded; a channel that is not enabled is not attempted
\* and has no entry.
Enabled(channel) ==
    CASE channel = "slack" -> call.self.slack_enabled
      [] channel = "teams" -> call.self.teams_enabled
      [] channel = "email" -> call.self.email_enabled
      [] OTHER -> FALSE

Ready(channel) ==
    CASE channel = "slack" -> Enabled("slack") /\ Configured(environ["SLACK_WEBHOOK_URL"])
      [] channel = "teams" -> Enabled("teams") /\ Configured(environ["TEAMS_WEBHOOK_URL"])
      [] channel = "email" ->
            /\ Enabled("email")
            /\ \A name \in EmailSettings : Configured(environ[name])
            /\ environ["SMTP_PORT"].some => IsDecimal(environ["SMTP_PORT"].v)
      [] OTHER -> FALSE

Entries(channel) ==
    {i \in 1..Len(call.out.value) : call.out.value[i].k = channel}

C24_IsolatedFailures ==
    call.fn \in AlertCalls =>
        /\ ~call.out.raised
        /\ \A channel \in AlertChannel :
              /\ Cardinality(Deliveries(channel)) = IF Ready(channel) THEN 1 ELSE 0
              /\ Ready(channel) =>
                    /\ Cardinality(Entries(channel)) = 1
                    /\ \A i \in Entries(channel) :
                          call.out.value[i].v = (channel \notin call.failing)
              /\ ~Enabled(channel) => Entries(channel) = {}
              /\ \A i \in Entries(channel) : call.out.value[i].v \in BOOLEAN

\* Slack fails while Teams and e-mail deliver: three entries, one of them False
C24_SlackFailsOthersDeliver ==
    /\ call.fn = "send_alert"
    /\ call.failing = {"slack"}
    /\ ~call.out.raised
    /\ call.out.value = <<Item("slack", FALSE), Item("teams", TRUE), Item("email", TRUE)>>
    /\ Len(call.io) = 3

\* every channel fails, and the mapping still has its three entries
C24_AllFail ==
    /\ call.fn = "send_alert"
    /\ call.failing = {"slack", "teams", "email"}
    /\ ~call.out.raised
    /\ call.out.value = <<Item("slack", FALSE), Item("teams", FALSE), Item("email", FALSE)>>
    /\ Len(call.io) = 3

\* e-mail switched on without its settings: an entry, False, and no delivery
C24_EmailUnconfigured ==
    /\ call.fn = "send_alert"
    /\ call.self.email_enabled
    /\ ~Ready("email")
    /\ Entries("email") # {}
    /\ Deliveries("email") = {}

\* ============================================ requests against the clock
\* Logins, token validations, predictions and threshold updates, each handler
\* run to its end, in every order, while the clock advances.
SessionInit ==
    /\ InitCommon
    /\ environ = [ENABLE_API_KEY_AUTH |-> NoneV, API_KEY |-> NoneV]
    /\ MODEL = load_model(TRUE)

SessionNext ==
    \/ Tick
    \/ Jump
    \/ Return
    \/ \E u \in {NameAdmin, NameTestuser} : Login(u, PwAdmin)
    \/ DecodeIssued
    \/ \E name \in {"no_separator", "other_key"} : DecodeCrafted(name)
    \/ \E a \in Presented : StrictGate(a)
    \/ \E a \in Presented : PredictSingle(a, NoneV, [Amount |-> 10, score |-> 9])
    \/ \E a \in Presented, v \in {0, 11} : UpdateThreshold(a, NoneV, v)

SpecSession == SessionInit /\ [][SessionNext]_vars

Validations == {"decode_access_token", "get_current_user"}

\* a validation of the token as it was issued, and the token validated
ValidatesIssued == call.fn \in Validations /\ call.kind = "issued"
Validated == IF call.fn = "decode_access_token" THEN call.token ELSE call.credentials.v

\* C25: in every order of logins, token validations, predictions and
\* threshold updates, no step writes the signing secret or the credential
\* store, which keep their initial values; so the outcome of a validation is
\* fixed by the token and the clock value alone: the token as issued is
\* accepted exactly until the clock passes its "exp" claim, and a string
\* that was not issued is rejected, whatever requests came before.
C25_AuthStateFixed ==
    /\ [][SECRET_KEY' = ConfiguredSecret /\ fake_users_db' = InitialUsers]_vars
    /\ [](ValidatesIssued =>
            (call.out.raised <=> call.at > TicksPerSec * ExpClaim(Validated)))
    /\ [](call.fn \in Validations /\ call.kind \in {"garbage", "tampered"} =>
            call.out.raised)

\* after a login and a threshold update, the token issued is accepted under
\* the initial secret
C25_AcceptedAfterUpdate ==
    /\ call.fn = "get_current_user"
    /\ call.kind = "issued"
    /\ ~call.out.raised
    /\ OPTIMAL_THRESHOLD # 5
    /\ SECRET_KEY = ConfiguredSecret
    /\ fake_users_db = InitialUsers

\* the clock values a token can be issued at, and the validations of the
\* token issued to user u at the clock value t
IssueClocks ==
    {StartClock + j * JumpTicks + t : j \in 0..MaxJumps, t \in 0..MaxTicks}

ValidatesTokenOf(u, t) ==
    /\ ValidatesIssued
    /\ issue.some
    /\ issue.v.at = t
    /\ issue.v.data = <<Item(KeySub, JStr(u))>>

\* C26: a validation changes neither the token nor any server state, the
\* clock never runs backwards, and once a validation has rejected a token
\* every later validation of that token rejects it, whatever validations
\* and other requests are made in between.
C26_NoSelfExtension ==
    /\ [][/\ now' >= now
          /\ call'.fn \in Validations =>
                UNCHANGED <<now, SECRET_KEY, environ, fake_users_db, MODEL,
                            OPTIMAL_THRESHOLD, token, issue>>]_vars
    /\ \A u \in {NameAdmin, NameTestuser}, t \in IssueClocks :
          [](ValidatesTokenOf(u, t) /\ call.out.raised =>
                [](ValidatesTokenOf(u, t) => call.out.raised))

\* the token issued at the start is validated two ticks after the clock has
\* passed its expiry, and is rejected
C26_StillExpiredLater ==
    /\ call.fn = "get_current_user"
    /\ call.kind = "issued"
    /\ issue.v.at = StartClock
    /\ now = StartClock + JumpTicks + 2
    /\ call.out.raised
    /\ call.out.exc = credentials_exception
    /\ token.v = call.credentials.v

\* ====================================================== batch simulator
\* rows in the dataset, and rows in one batch
MaxRows == 4
MaxBatchSize == 2

\* BatchSimulator(...) after load_data: self.df is the dataset in time
\* order, here the Class column of its rows
BatchSimulator(df, batch_size) ==
    [df |-> df, batch_size |-> batch_size,
     total_batches |-> (Len(df) - 1) \div batch_size + 1,
     current_batch |-> 0, processed_transactions |-> 0, processed_frauds |-> 0]

\* "min(max_batches or float('inf'), self.total_batches)": None and 0 are
\* both false and stand for no limit
batches_to_process(max_batches, total_batches) ==
    IF ~max_batches.some \/ max_batches.v = 0 THEN total_batches
    ELSE IF max_batches.v < total_batches THEN max_batches.v ELSE total_batches

\* "self.df.iloc[start_idx:end_idx]"
iloc(df, start_idx, end_idx) == SubSeq(df, start_idx + 1, end_idx)

Sum(classes) == Cardinality({i \in 1..Len(classes) : classes[i] = 1})

\* process_batch: the results of a batch, or the error entry when a step
\* of it raises; `duplicated` is the row simulate_real_time_variations
\* repeats, if it repeats one
BatchFinal(batch_df, duplicated) ==
    IF duplicated.some /\ duplicated.v \in 1..Len(batch_df)
    THEN Append(batch_df, batch_df[duplicated.v])
    ELSE batch_df

process_batch(batch_id, start_idx, end_idx, batch_final, raises) ==
    IF raises
    THEN [batch_id |-> batch_id, start_idx |-> start_idx, end_idx |-> end_idx,
          error |-> TRUE, transactions_processed |-> 0, fraud_count |-> 0]
    ELSE [batch_id |-> batch_id, start_idx |-> start_idx, end_idx |-> end_idx,
          error |-> FALSE, transactions_processed |-> Len(batch_final),
          fraud_count |-> Sum(batch_final)]

\* run_simulation called on a simulator whose dataset loads: the generator
\* stands before the first pass of its loop
RunSimulation(df, batch_size, max_batches) ==
    /\ call = NoCall
    /\ call' = [fn |-> "run_simulation", self |-> BatchSimulator(df, batch_size),
                max_batches |-> max_batches,
                batches_to_process |->
                    batches_to_process(max_batches,
                                       BatchSimulator(df, batch_size).total_batches),
                batch_idx |-> 0, yielded |-> <<>>, reports |-> 0,
                interrupted |-> FALSE, pc |-> "loop"]
    /\ UNCHANGED <<now, SECRET_KEY, environ, fake_users_db, MODEL,
                   OPTIMAL_THRESHOLD, token, issue>>

\* "self.df is None" and load_data returns False: the generator returns
\* at once, before the try block
RunWithoutData(batch_size, max_batches) ==
    /\ call = NoCall
    /\ call' = [fn |-> "run_simulation", self |-> BatchSimulator(<<>>, batch_size),
                max_batches |-> max_batches, batches_to_process |-> 0,
                batch_idx |-> 0, yielded |-> <<>>, reports |-> 0,
                interrupted |-> FALSE, pc |-> "not_loaded"]
    /\ UNCHANGED <<now, SECRET_KEY, environ, fake_users_db, MODEL,
                   OPTIMAL_THRESHOLD, token, issue>>

Slice(self, batch_idx) ==
    [start_idx |-> batch_idx * self.batch_size,
     end_idx |-> IF batch_idx * self.batch_size + self.batch_size < Len(self.df)
                 THEN batch_idx * self.batch_size + self.batch_size
                 ELSE Len(self.df)]

Yielding(c, results) ==
    [c EXCEPT !.self.current_batch = c.batch_idx + 1,
              !.self.processed_transactions = @ + results.transactions_processed,
              !.self.processed_frauds = @ + results.fraud_count,
              !.batch_idx = @ + 1,
              !.yielded = Append(@, results)]

\* one pass of "for batch_idx in range(int(batches_to_process))", up to
\* its yield
NextBatch(duplicated, raises) ==
    /\ call # NoCall
    /\ call.fn = "run_simulation"
    /\ call.pc = "loop"
    /\ call.batch_idx < call.batches_to_process
    /\ call' = Yielding(call,
                        process_batch(call.batch_idx + 1,
                                      Slice(call.self, call.batch_idx).start_idx,
                                      Slice(call.self, call.batch_idx).end_idx,
                                      BatchFinal(iloc(call.self.df,
                                                      Slice(call.self, call.batch_idx).start_idx,
                                                      Slice(call.self, call.batch_idx).end_idx),
                                                 duplicated),
                                      raises))
    /\ UNCHANGED <<now, SECRET_KEY, environ, fake_users_db, MODEL,
                   OPTIMAL_THRESHOLD, token, issue>>

\* the range is exhausted: "finally: self.generate_final_report()"
Exhausted ==
    /\ call # NoCall
    /\ call.fn = "run_simulation"
    /\ call.pc = "loop"
    /\ call.batch_idx >= call.batches_to_process
    /\ call' = [call EXCEPT !.reports = @ + 1, !.pc = "done"]
    /\ UNCHANGED <<now, SECRET_KEY, environ, fake_users_db, MODEL,
                   OPTIMAL_THRESHOLD, token, issue>>

\* KeyboardInterrupt, or the consumer closing the generator, at a yield:
\* the finally clause runs all the same
Interrupted ==
    /\ call # NoCall
    /\ call.fn = "run_simulation"
    /\ call.pc = "loop"
    /\ call.yielded # <<>>
    /\ call' = [call EXCEPT !.reports = @ + 1, !.interrupted = TRUE, !.pc = "done"]
    /\ UNCHANGED <<now, SECRET_KEY, environ, fake_users_db, MODEL,
                   OPTIMAL_THRESHOLD, token, issue>>

\* the generator has returned
Finished ==
    /\ call # NoCall
    /\ call.fn = "run_simulation"
    /\ call.pc \in {"done", "not_loaded"}
    /\ Return

\* datasets of 0 to MaxRows rows, every third row a fraud
Datasets == {[i \in 1..n |-> IF i % 3 = 2 THEN 1 ELSE 0] : n \in 0..MaxRows}
Limits == {NoneV} \cup {Some(n) : n \in (0 - 1)..(MaxRows + 1)}

SimInit == DriftInit

SimNext ==
    \/ \E df \in Datasets, batch_size \in 1..MaxBatchSize, max_batches \in Limits :
          RunSimulation(df, batch_size, max_batches)
    \/ \E max_batches \in Limits : RunWithoutData(MaxBatchSize, max_batches)
    \/ \E duplicated \in {NoneV, Some(1)}, raises \in BOOLEAN :
          NextBatch(duplicated, raises)
    \/ Exhausted
    \/ Interrupted
    \/ Finished

SpecSim == SimInit /\ [][SimNext]_vars

\* the generator left to run: weak fairness of its own steps
SpecSimFair ==
    SpecSim /\ WF_vars(\E duplicated \in {NoneV, Some(1)}, raises \in BOOLEAN :
                          NextBatch(duplicated, raises))
            /\ WF_vars(Exhausted)

\* ------------------------------------------------ batch simulator: claims
Simulating == call.fn = "run_simulation"
RanToTheEnd == Simulating /\ call.pc = "done" /\ ~call.interrupted

\* min(n, total_batches), and total_batches when n is None
LimitAsGiven ==
    IF ~call.max_batches.some THEN call.self.total_batches
    ELSE IF call.max_batches.v < call.self.total_batches THEN call.max_batches.v
    ELSE call.self.total_batches

\* the results yielded are batches 1, 2, ... in order, batch i covering
\* the rows [(i-1)*batch_size, min(i*batch_size, N))
ConsecutiveRanges ==
    \A i \in 1..Len(call.yielded) :
        /\ call.yielded[i].batch_id = i
        /\ call.yielded[i].start_idx = (i - 1) * call.self.batch_size
        /\ call.yielded[i].end_idx =
              IF i * call.self.batch_size < Len(call.self.df)
              THEN i * call.self.batch_size ELSE Len(call.self.df)

\* C28: run_simulation(max_batches=n) never yields more than n batches when
\* n is an integer; run to its end it has yielded k = min(n, total_batches)
\* results (none when k is not positive; all total_batches only when n is
\* None), with batch ids 1..k in increasing order over consecutive disjoint
\* row ranges, and has generated the final report exactly once.
C28_AtMostMaxBatches ==
    Simulating =>
        /\ call.max_batches.some /\ call.max_batches.v >= 0 =>
              Len(call.yielded) <= call.max_batches.v
        /\ ConsecutiveRanges
        /\ call.reports <= 1
        /\ RanToTheEnd =>
              /\ Len(call.yielded) = IF LimitAsGiven > 0 THEN LimitAsGiven ELSE 0
              /\ call.reports = 1

\* max_batches = 0 on a dataset of three batches: all three are yielded
C28_ZeroLimitRunsAll ==
    /\ RanToTheEnd
    /\ call.max_batches = Some(0)
    /\ call.self.total_batches = 3
    /\ Len(call.yielded) = 3
    /\ call.reports = 1

\* for every limit but 0 the statement holds
C28_NonZeroLimitRespected ==
    (Simulating /\ call.max_batches # Some(0)) =>
        /\ call.max_batches.some /\ call.max_batches.v >= 0 =>
              Len(call.yielded) <= call.max_batches.v
        /\ ConsecutiveRanges
        /\ call.reports <= 1
        /\ RanToTheEnd =>
              /\ Len(call.yielded) = IF LimitAsGiven > 0 THEN LimitAsGiven ELSE 0
              /\ call.reports = 1

\* a limit of 2 on a dataset of 3 batches: batches 1 and 2, one report
C28_TwoOfThree ==
    /\ RanToTheEnd
    /\ call.max_batches = Some(2)
    /\ call.self.total_batches = 3
    /\ Len(call.yielded) = 2
    /\ call.reports = 1

\* a run that is not interrupted reaches its end
C28_RunTerminates == Simulating ~> (call = NoCall \/ call.pc \in {"done", "not_loaded"})

\* ================================================= requests on one event loop
\* Every handler of main.py is an "async def": the dependencies of a request
\* are awaited, then its body runs on the event loop of the process.  A body
\* gives the loop back only at an await.
MaxUpdates == 2

\* an await in the for loop of predict_batch: there is none
AwaitsEachTransaction == TRUE
AwaitsInLoop == FALSE

\* the bearer token of a user logged in as admin
AdminBearer == Some(create_access_token(<<Item(KeySub, JStr(NameAdmin))>>, NoneV))

\* a batch request accepted by the server: its dependencies are not solved yet
Serve(request) ==
    /\ call = NoCall
    /\ call' = [fn |-> "event_loop",
                batch |-> [pc |-> "dependencies", request |-> request,
                           predictions |-> <<>>, resp |-> NoneV],
                single |-> NoneV, updates |-> 0]
    /\ UNCHANGED <<now, SECRET_KEY, environ, fake_users_db, MODEL,
                   OPTIMAL_THRESHOLD, token, issue>>

Serving == call # NoCall /\ call.fn = "event_loop"

\* the loop is free for another task: no body is in the middle of its run
EventLoopFree == Serving /\ (call.batch.pc # "loop" \/ AwaitsInLoop)

\* predict_batch up to "predictions = []": the dependencies are solved, the
\* request is validated, MODEL is tested
BatchEnters ==
    /\ Serving
    /\ call.batch.pc = "dependencies"
    /\ call' = IF predict_batch(call.batch.request,
                                CurrentActiveUser(AdminBearer)).status = 200
               THEN [call EXCEPT !.batch.pc = "loop"]
               ELSE [call EXCEPT !.batch.pc = "done",
                                 !.batch.resp =
                                    Some(predict_batch(call.batch.request,
                                                       CurrentActiveUser(AdminBearer)))]
    /\ UNCHANGED <<now, SECRET_KEY, environ, fake_users_db, MODEL,
                   OPTIMAL_THRESHOLD, token, issue>>

\* one pass of "for transaction in request.transactions": OPTIMAL_THRESHOLD
\* is read from the module global in each pass
BatchStep ==
    /\ Serving
    /\ call.batch.pc = "loop"
    /\ Len(call.batch.predictions) < Len(call.batch.request)
    /\ call' = [call EXCEPT !.batch.predictions =
                    Append(@, PredictionResponse(
                                  call.batch.request[Len(call.batch.predictions) + 1]))]
    /\ UNCHANGED <<now, SECRET_KEY, environ, fake_users_db, MODEL,
                   OPTIMAL_THRESHOLD, token, issue>>

\* the statistics and "return BatchPredictionResponse(...)"
BatchEnds ==
    /\ Serving
    /\ call.batch.pc = "loop"
    /\ Len(call.batch.predictions) = Len(call.batch.request)
    /\ call' = [call EXCEPT !.batch.pc = "done",
                            !.batch.resp =
                                Some(Response(200, BatchOf(call.batch.predictions), TRUE))]
    /\ UNCHANGED <<now, SECRET_KEY, environ, fake_users_db, MODEL,
                   OPTIMAL_THRESHOLD, token, issue>>

\* an update_threshold request served while the batch request is in flight
UpdateDuring(new_threshold) ==
    /\ EventLoopFree
    /\ call.batch.pc # "done"
    /\ call.updates < MaxUpdates
    /\ call' = [call EXCEPT !.updates = @ + 1]
    /\ OPTIMAL_THRESHOLD' =
          IF update_threshold(new_threshold, CurrentActiveUser(AdminBearer)).ran
          THEN new_threshold ELSE OPTIMAL_THRESHOLD
    /\ UNCHANGED <<now, SECRET_KEY, environ, fake_users_db, MODEL, token, issue>>

\* a predict_single request served while the batch request is in flight
SingleDuring(transaction) ==
    /\ EventLoopFree
    /\ call.batch.pc # "done"
    /\ ~call.single.some
    /\ call' = [call EXCEPT !.single =
                    Some(predict_single(transaction, CurrentActiveUser(AdminBearer)))]
    /\ UNCHANGED <<now, SECRET_KEY, environ, fake_users_db, MODEL,
                   OPTIMAL_THRESHOLD, token, issue>>

\* the batch response is sent
Served ==
    /\ Serving
    /\ call.batch.pc = "done"
    /\ Return

LoopInit == DriftInit

LoopNext ==
    \/ \E request \in SeqsUpTo(Transactions, MaxBatch) : Serve(request)
    \/ BatchEnters
    \/ BatchStep
    \/ BatchEnds
    \/ \E new_threshold \in {0, 7, 11} : UpdateDuring(new_threshold)
    \/ SingleDuring([Amount |-> 10, score |-> 9])
    \/ Served

SpecLoop == LoopInit /\ [][LoopNext]_vars

\* ------------------------------------------------------ event loop: claims
Consistent(prediction) ==
    prediction.is_fraud = (prediction.fraud_probability >= prediction.threshold_used)

\* C29: every prediction of a response, single or batch, has is_fraud equal
\* to (fraud_probability >= threshold_used), and the predictions of one batch
\* response carry one and the same threshold_used, whatever update_threshold
\* requests the process serves while the batch request is in flight.
C29_OneThresholdPerResponse ==
    Serving =>
        /\ \A i \in 1..Len(call.batch.predictions) :
              /\ Consistent(call.batch.predictions[i])
              /\ call.batch.predictions[i].threshold_used
                    = call.batch.predictions[1].threshold_used
        /\ (call.batch.resp.some /\ call.batch.resp.v.status = 200) =>
              call.batch.resp.v.body.predictions = call.batch.predictions
        /\ (call.single.some /\ call.single.v.status = 200) =>
              Consistent(call.single.v.body)

\* two updates were served between the arrival of a batch of two and its
\* body; the response uses the last threshold, 0.7, for both predictions
C29_UpdatedBeforeBody ==
    /\ Serving
    /\ call.updates = 2
    /\ call.batch.resp.some
    /\ call.batch.resp.v.status = 200
    /\ Len(call.batch.resp.v.body.predictions) = 2
    /\ \A i \in 1..2 : call.batch.resp.v.body.predictions[i].threshold_used = 7
    /\ call.batch.resp.v.body.predictions[1].is_fraud
          # call.batch.resp.v.body.predictions[2].is_fraud

====
